---- MODULE Spec2Model ----
(***************************************************************************)
(* The term-based grading engine of the school information system:        *)
(* src/grading/models.py (StudentGrade, GradingScale, TermGrade),          *)
(* src/grading/forms.py (StudentGradeForm) and the admin entry points of   *)
(* src/grading/admin.py.                                                   *)
(*                                                                         *)
(* Numbers.  The code computes with decimal.Decimal.  Stored decimals have *)
(* two places and are modelled as integers counting hundredths ("cents":   *)
(* a score of 18.00 is 1800, a weight of 10.00 % is 1000).  A weighted     *)
(* score is percentage * weight / 100; with both factors in cents the      *)
(* exact product counts millionths ("micros": 9.0 is 9000000).  The values *)
(* of max_score used below divide 100, so every division is exact and the  *)
(* integers are the Decimal values, digit for digit.                       *)
(*                                                                         *)
(* None is the empty tuple and a present value v is <<v>>.                 *)
(***************************************************************************)
EXTENDS Integers, Sequences, FiniteSets, Bags, TLC

\* ------------------------------------------------------------------ bounds
MaxGrades == 2
NumRequests == 2
MaxRecords == 2
MaxTypes == 4
MaxTerms == 3

\* ------------------------------------------------------------- optionals
None == <<>>
Some(v) == <<v>>
Val(o) == o[1]

\* ------------------------------------------------------------ fixed data
\* The two assessment types the rows below use (setup_grading_scale.py).
AssessmentTypes ==
  [QZ   |-> [is_exam |-> FALSE, default_weight |-> 500,  default_max_score |-> 20],
   EXAM |-> [is_exam |-> TRUE,  default_weight |-> 7000, default_max_score |-> 100]]

\* The SubjectAssessment rows a teacher sets up, in the order they are added.
\* Row 3 belongs to another class-subject and row 4 to another grading period;
\* row 5 is a second quiz of the first class-subject and period.
Catalogue ==
  <<[class_subject |-> 1, grading_period |-> 1, assessment_type |-> "QZ",
     max_score |-> 20, weight |-> 3000],
    [class_subject |-> 1, grading_period |-> 1, assessment_type |-> "EXAM",
     max_score |-> 100, weight |-> 7000],
    [class_subject |-> 2, grading_period |-> 1, assessment_type |-> "EXAM",
     max_score |-> 100, weight |-> 10000],
    [class_subject |-> 1, grading_period |-> 2, assessment_type |-> "QZ",
     max_score |-> 20, weight |-> 3000],
    [class_subject |-> 1, grading_period |-> 1, assessment_type |-> "QZ",
     max_score |-> 20, weight |-> 3000]>>

\* The assessments of the score ledger: the first four rows.
LedgerAssessments == 1..4

\* The scores entered for each assessment (cents): 6.67 and 20.00 of 20,
\* 60.00 and 99.99 of 100, 100.00 of 100, 20.00 of 20.
ScoreChoices ==
  <<{None, Some(667), Some(2000)},
    {Some(6000), Some(9999)},
    {Some(10000)},
    {Some(2000)}>>

\* The (assessment, student) pairs that are scored: student 1 sits all four
\* assessments, student 2 the first.
GradePairs == {<<1, 1>>, <<2, 1>>, <<3, 1>>, <<4, 1>>, <<1, 2>>}

\* (enrollment.student, class_subject, grading_period) of the TermGrade row
\* that is calculated: student 1 in class-subject 1, grading period 1.
TermGradeKeys == {<<1, 1, 1>>}

\* The default scale of setup_grading_scale (cents).
DefaultScale ==
  {[grade |-> "A1", min_score |-> 8000, max_score |-> 10000, grade_point |-> 400],
   [grade |-> "B2", min_score |-> 7500, max_score |-> 7999,  grade_point |-> 350],
   [grade |-> "B3", min_score |-> 7000, max_score |-> 7499,  grade_point |-> 300],
   [grade |-> "C4", min_score |-> 6500, max_score |-> 6999,  grade_point |-> 250],
   [grade |-> "C5", min_score |-> 6000, max_score |-> 6499,  grade_point |-> 200],
   [grade |-> "C6", min_score |-> 5500, max_score |-> 5999,  grade_point |-> 150],
   [grade |-> "D7", min_score |-> 5000, max_score |-> 5499,  grade_point |-> 100],
   [grade |-> "E8", min_score |-> 4500, max_score |-> 4999,  grade_point |-> 50],
   [grade |-> "F9", min_score |-> 0,    max_score |-> 4499,  grade_point |-> 0]}

\* A band a school adds through the admin: it overlaps A1, B2 and B3.
CustomBands ==
  {[grade |-> "X", min_score |-> 7000, max_score |-> 10000, grade_point |-> 200]}

\* ----------------------------------------------------------------- state
VARIABLES
  assessments,   \* ids (indexes of Catalogue) of the stored SubjectAssessment rows
  grades,        \* bag of stored StudentGrade rows
  scale,         \* set of stored GradingScale rows
  term_grades,   \* stored TermGrade rows, by (student, class_subject, grading_period)
  last_calc,     \* the TermGrade object calculate_scores has just returned from
  form,          \* the StudentGradeForm submission that has just been handled
  txn,           \* the concurrent score-recording requests, by request number
  report_cards,  \* stored ReportCard rows, by (student, grading_period)
  attendance,    \* set of stored AttendanceRecord rows
  last_report,   \* the ReportCard object calculate_overall_metrics has just returned from
  terms,         \* stored Term rows, by primary key
  periods,       \* stored GradingPeriod rows, by primary key (that of their term)
  assessment_types, \* stored AssessmentType rows, by primary key
  last_request,  \* the calendar or assessment-type request that has just been handled
  class_position, \* the class_position column of the TermGrade rows, by the rows' key
  last_rank,     \* the (class_subject, grading_period) that has just been ranked
  teacher_comment, \* the teacher_comment column of the recalculated TermGrade rows
  calc,          \* the concurrent recalculation requests, by request number
  last_save,     \* the recalculation request whose save() committed last, or 0
  period_txn,    \* the concurrent set_current_period requests, by request number
  max_score,     \* the max_score column of the SubjectAssessment rows, by id
  sessions,      \* stored AttendanceSession rows, by primary key
  session_txn    \* the concurrent mark_attendance and session_delete requests

\* The state of the report-card, the administration and the ranking requests.
report_vars == <<report_cards, attendance, last_report>>
admin_vars == <<terms, periods, assessment_types, last_request>>
rank_vars == <<class_position, last_rank>>
calc_txn_vars == <<teacher_comment, calc, last_save>>
session_vars == <<sessions, session_txn>>
beyond_calc == <<period_txn, max_score, session_vars>>
other_vars == <<calc_txn_vars, beyond_calc>>
more_vars == <<report_vars, admin_vars, rank_vars, other_vars>>

vars == <<assessments, grades, scale, term_grades, last_calc, form, txn, more_vars>>

\* What the term-grade requests leave alone, and what the form requests do.
entry_vars == <<form, txn>>
calc_vars == <<scale, term_grades, last_calc>>

\* No TermGrade object is in hand (no request is inside calculate_scores).
NoCall == [key |-> <<>>, obj |-> <<>>, calls |-> 0, added |-> FALSE, before |-> None]

\* A TermGrade as first inserted: scores NULL, grade blank (models.py 371-403).
NewTermGrade ==
  [continuous_assessment_score |-> None, exam_score |-> None,
   total_score |-> None, grade |-> "", grade_point |-> None]

\* ------------------------------------------------------- StudentGrade
\* StudentGrade.clean and the score validator, without the upper limit.
StudentGrade_clean_no_max(score, a) ==
  IF score = None THEN TRUE ELSE Val(score) >= 0

\* MinValueValidator(0) of the score field and StudentGrade.clean.
StudentGrade_clean(score, a) ==
  IF score = None
    THEN TRUE
    ELSE Val(score) >= 0 /\ ~(Val(score) > max_score[a] * 100)

\* get_percentage that does not look at is_excused.
get_percentage_ignores_excused(g) ==
  IF g.score = None
    THEN None
    ELSE Some((Val(g.score) * 100) \div max_score[g.assessment])

\* StudentGrade.get_percentage, in cents of a percent.
get_percentage(g) ==
  IF g.score = None \/ g.is_excused
    THEN None
    ELSE Some((Val(g.score) * 100) \div max_score[g.assessment])

\* StudentGrade.get_weighted_score, in micros.
get_weighted_score(g) ==
  LET percentage == get_percentage(g)
  IN  IF percentage = None
        THEN None
        ELSE Some(Val(percentage) * Catalogue[g.assessment].weight)

\* ------------------------------------------------------- GradingScale
\* Cents as a Decimal in micros.
Micros(cents) == cents * 10000

\* get_grade_for_score with the bands in ascending min_score order.
get_grade_for_score_ascending(score) ==
  IF score = None
    THEN None
    ELSE LET match == {b \in scale : Micros(b.min_score) <= Val(score)
                                     /\ Micros(b.max_score) >= Val(score)}
         IN  IF match = {}
               THEN None
               ELSE Some((CHOOSE b \in match :
                            \A c \in match : c.min_score >= b.min_score).grade)

\* GradingScale.get_grade_for_score: the first band, in descending min_score
\* order, with min_score <= score <= max_score.
get_grade_for_score(score) ==
  IF score = None
    THEN None
    ELSE LET match == {b \in scale : Micros(b.min_score) <= Val(score)
                                     /\ Micros(b.max_score) >= Val(score)}
         IN  IF match = {}
               THEN None
               ELSE Some((CHOOSE b \in match :
                            \A c \in match : c.min_score <= b.min_score).grade)

\* --------------------------------------------------------- TermGrade
\* The assessments of calculate_scores' first query.
AssessmentsFor(class_subject, grading_period) ==
  {a \in assessments : Catalogue[a].class_subject = class_subject
                       /\ Catalogue[a].grading_period = grading_period}

\* FirstGrade without the student filter.
FirstGrade_any_student(G, a, student) ==
  LET rows == {r \in BagToSet(G) : r.assessment = a /\ ~r.is_excused}
  IN  IF rows = {} THEN None ELSE Some(CHOOSE r \in rows : TRUE)

\* Sum('weight') over a set of assessments.
RECURSIVE SumWeight(_)
SumWeight(S) ==
  IF S = {} THEN 0
  ELSE LET a == CHOOSE x \in S : TRUE
       IN  Catalogue[a].weight + SumWeight(S \ {a})

\* get_total_weight_for_period without the grading_period filter.
get_total_weight_for_period_any_period(A, class_subject, grading_period) ==
  LET rows == {a \in A : Catalogue[a].class_subject = class_subject}
  IN  IF rows = {} THEN 0 ELSE SumWeight(rows)

\* SubjectAssessment.get_total_weight_for_period, of an assessment with the
\* given class_subject and grading_period: the aggregate, or 0 for None.
get_total_weight_for_period(A, class_subject, grading_period) ==
  LET rows == {a \in A : /\ Catalogue[a].class_subject = class_subject
                         /\ Catalogue[a].grading_period = grading_period}
  IN  IF rows = {} THEN 0 ELSE SumWeight(rows)

\* The per-assessment query of the loop: the student's non-excused row.
FirstGrade(G, a, student) ==
  LET rows == {r \in BagToSet(G) : r.assessment = a /\ r.student = student
                                   /\ ~r.is_excused}
  IN  IF rows = {} THEN None ELSE Some(CHOOSE r \in rows : TRUE)

\* Weighted with the excused flag ignored: any row of the pair counts with
\* its raw score.
Weighted_counts_excused(G, a, student) ==
  LET rows == {r \in BagToSet(G) : r.assessment = a /\ r.student = student}
  IN  IF rows = {}
        THEN 0
        ELSE LET g == CHOOSE r \in rows : TRUE
             IN  IF g.score = None
                   THEN 0
                   ELSE ((Val(g.score) * 100) \div max_score[a])
                          * Catalogue[a].weight

\* What one assessment adds to the totals (the body of the loop), in micros.
Weighted(G, a, student) ==
  LET grade == FirstGrade(G, a, student)
  IN  IF grade # None /\ Val(grade).score # None
        THEN LET weighted == get_weighted_score(Val(grade))
             IN  IF weighted # None /\ Val(weighted) # 0 THEN Val(weighted) ELSE 0
        ELSE 0

\* Accumulators that start from what the object already holds.
ZeroTotals_keeps_old(self) ==
  [ca_total   |-> IF self.continuous_assessment_score = None THEN 0
                  ELSE Val(self.continuous_assessment_score),
   exam_total |-> IF self.exam_score = None THEN 0 ELSE Val(self.exam_score),
   total      |-> IF self.total_score = None THEN 0 ELSE Val(self.total_score)]

\* The accumulators before the loop.
ZeroTotals(self) == [ca_total |-> 0, exam_total |-> 0, total |-> 0]

\* The loop with an exam's weighted score also added to ca_total.
RECURSIVE Accumulate_exam_in_ca(_, _, _, _)
Accumulate_exam_in_ca(G, todo, student, acc) ==
  IF todo = {}
    THEN acc
    ELSE LET a == CHOOSE x \in todo : \A y \in todo : y <= x
             weighted == Weighted(G, a, student)
             is_exam == AssessmentTypes[Catalogue[a].assessment_type].is_exam
         IN  Accumulate_exam_in_ca(G, todo \ {a}, student,
               [ca_total   |-> acc.ca_total + weighted,
                exam_total |-> IF is_exam THEN acc.exam_total + weighted ELSE acc.exam_total,
                total      |-> acc.total + weighted])

\* The loop with `total = weighted` in place of `total += weighted`.
RECURSIVE Accumulate_assigns_total(_, _, _, _)
Accumulate_assigns_total(G, todo, student, acc) ==
  IF todo = {}
    THEN acc
    ELSE LET a == CHOOSE x \in todo : \A y \in todo : y <= x
             weighted == Weighted(G, a, student)
             is_exam == AssessmentTypes[Catalogue[a].assessment_type].is_exam
         IN  Accumulate_assigns_total(G, todo \ {a}, student,
               [ca_total   |-> IF is_exam THEN acc.ca_total ELSE acc.ca_total + weighted,
                exam_total |-> IF is_exam THEN acc.exam_total + weighted ELSE acc.exam_total,
                total      |-> IF weighted # 0 THEN weighted ELSE acc.total])

\* The loop of calculate_scores over the assessments still to visit
\* (Meta.ordering of SubjectAssessment: latest first).
RECURSIVE Accumulate(_, _, _, _)
Accumulate(G, todo, student, acc) ==
  IF todo = {}
    THEN acc
    ELSE LET a == CHOOSE x \in todo : \A y \in todo : y <= x
             weighted == Weighted(G, a, student)
             is_exam == AssessmentTypes[Catalogue[a].assessment_type].is_exam
         IN  Accumulate(G, todo \ {a}, student,
               [ca_total   |-> IF is_exam THEN acc.ca_total ELSE acc.ca_total + weighted,
                exam_total |-> IF is_exam THEN acc.exam_total + weighted ELSE acc.exam_total,
                total      |-> acc.total + weighted])

\* The grade point calculate_scores leaves on the object (lines 464-468).
GradePointFor(self, grade) ==
  IF grade # ""
    THEN LET rows == {b \in scale : b.grade = grade}
         IN  IF rows # {} THEN Some((CHOOSE b \in rows : TRUE).grade_point)
                          ELSE self.grade_point
    ELSE self.grade_point

\* TermGrade.calculate_scores on the object `self` of the row `key`, over the
\* StudentGrade table G: the object as it is when save() is called.
calculate_scores(G, key, self) ==
  LET acc   == Accumulate(G, AssessmentsFor(key[2], key[3]), key[1], ZeroTotals(self))
      found == get_grade_for_score(Some(acc.total))
      grade == IF found = None THEN "" ELSE Val(found)
  IN  [continuous_assessment_score |-> Some(acc.ca_total),
       exam_score                  |-> Some(acc.exam_total),
       total_score                 |-> Some(acc.total),
       grade                       |-> grade,
       grade_point                 |-> GradePointFor(self, grade)]

\* A DecimalField(decimal_places=2) column takes a Decimal of micros rounded
\* to cents (PostgreSQL numeric(6,2) rounds half away from zero).
Quantize(d) == IF d = None THEN None ELSE Some((Val(d) + 5000) \div 10000)

\* The row save() writes for an object.
Stored(obj) ==
  [continuous_assessment_score |-> Quantize(obj.continuous_assessment_score),
   exam_score                  |-> Quantize(obj.exam_score),
   total_score                 |-> Quantize(obj.total_score),
   grade                       |-> obj.grade,
   grade_point                 |-> obj.grade_point]

\* The object a query builds from a row.
Loaded(row) ==
  [continuous_assessment_score |->
     IF row.continuous_assessment_score = None THEN None
     ELSE Some(Micros(Val(row.continuous_assessment_score))),
   exam_score  |-> IF row.exam_score = None THEN None
                   ELSE Some(Micros(Val(row.exam_score))),
   total_score |-> IF row.total_score = None THEN None
                   ELSE Some(Micros(Val(row.total_score))),
   grade       |-> row.grade,
   grade_point |-> row.grade_point]

\* ---------------------------------------------------- StudentGradeForm
\* No form has been submitted.
NoForm == [pair |-> <<>>, score |-> None, is_excused |-> FALSE, valid |-> FALSE]

\* Meta.fields of StudentGradeForm: the order in which the fields are cleaned.
FormFields == <<"score", "is_excused", "remarks">>

\* cleaned_data as it is when clean_<field> runs: the submitted values of the
\* fields up to and including `field`, each as <<value>>.
CleanedDataAt(field, data) ==
  LET upto == CHOOSE i \in 1..Len(FormFields) : FormFields[i] = field
  IN  [f \in {FormFields[i] : i \in 1..upto} |-> Some(data[f])]

\* cleaned_data.get(name)
Get(cleaned_data, name) ==
  IF name \in DOMAIN cleaned_data THEN cleaned_data[name] ELSE None

\* The score form field: a DecimalField with the model field's
\* MinValueValidator(0); None for an empty input.
ScoreFieldValid(score) == IF score = None THEN TRUE ELSE Val(score) >= 0

\* StudentGradeForm.clean_score on the cleaned_data of its moment; a is the
\* form's assessment as <<id>>, or None when the form was built without one.
\* [ok, value]: ok is FALSE when it raises ValidationError.
clean_score(cleaned_data, a) ==
  LET got        == Get(cleaned_data, "score")
      score      == IF got = None THEN None ELSE Val(got)
      is_excused == Get(cleaned_data, "is_excused")
  IN  IF is_excused # None /\ Val(is_excused) = TRUE
        THEN [ok |-> TRUE, value |-> None]
        ELSE IF score # None /\ a # None
          THEN IF Val(score) > max_score[Val(a)] * 100
                 THEN [ok |-> FALSE, value |-> None]
                 ELSE IF Val(score) < 0
                   THEN [ok |-> FALSE, value |-> None]
                   ELSE [ok |-> TRUE, value |-> score]
          ELSE [ok |-> TRUE, value |-> score]

\* is_valid() of a StudentGradeForm bound to `data` for a StudentGrade of
\* assessment `instance_a`: the fields are cleaned in Meta.fields order, then
\* the instance is built and StudentGrade.full_clean runs on it.
\* [valid, score, is_excused]: the values save() would write.
StudentGradeForm_clean(data, a, instance_a) ==
  LET field_ok == ScoreFieldValid(data.score)
      cleaned  == IF field_ok
                    THEN clean_score(CleanedDataAt("score", data), a)
                    ELSE [ok |-> FALSE, value |-> None]
      model_ok == cleaned.ok /\ StudentGrade_clean(cleaned.value, instance_a)
  IN  [valid |-> model_ok, score |-> cleaned.value, is_excused |-> data.is_excused]

\* ----------------------------------------------------------- requests
Requests == 1..NumRequests
Idle == [pc |-> "idle", pair |-> <<>>, score |-> None, found |-> FALSE]

\* The two recalculation requests.
CalcRequests == {1, 2}

\* A request that holds no AttendanceSession object.
IdleSession ==
  [pc |-> "idle", op |-> "", session |-> 0, finalize |-> FALSE, status |-> ""]

\* A request that holds no GradingPeriod object.
IdlePeriod == [pc |-> "idle", pk |-> 0, is_current |-> FALSE]

\* A request that holds no TermGrade object.
NoCalc ==
  [pc |-> "idle", key |-> <<>>, obj |-> NewTermGrade,
   teacher_comment |-> "", class_position |-> None]

\* A save that leaves the exam_score column of the row as it is.
TermGrade_save_keeps_exam(TG, key, obj) ==
  [TG EXCEPT ![key] = [Stored(obj) EXCEPT !.exam_score = TG[key].exam_score]]

\* self.save() at the end of calculate_scores: one UPDATE that sets every
\* column of the row to the value the object holds.
TermGrade_save(TG, key, obj) == [TG EXCEPT ![key] = Stored(obj)]

\* ------------------------------------------------------------ ReportCard
\* No ReportCard object is in hand.
NoReport == [key |-> <<>>, obj |-> <<>>]

\* start_date and end_date of the two grading periods, as day numbers.
PeriodDates ==
  <<[start_date |-> 2, end_date |-> 4], [start_date |-> 5, end_date |-> 7]>>

\* The date of each AttendanceSession: one the day before grading period 1
\* starts, two on its first day (subject sessions), one on its last day and
\* one the day after.
SessionDate == <<1, 2, 2, 4, 5>>

\* AttendanceRecord.Status.
Statuses == {"present", "absent", "late", "excused"}

\* The TermGrade rows the report cards are compiled from (cents): 75.00 with
\* grade point 3.00, 60.00 with 2.00, a failed subject with grade point 0.00,
\* a subject whose total falls in no band, and a row not calculated yet.
TermGradeRows ==
  {[continuous_assessment_score |-> Some(2500), exam_score |-> Some(5000),
    total_score |-> Some(7500), grade |-> "B3", grade_point |-> Some(300)],
   [continuous_assessment_score |-> Some(2000), exam_score |-> Some(4000),
    total_score |-> Some(6000), grade |-> "C5", grade_point |-> Some(200)],
   [continuous_assessment_score |-> Some(1000), exam_score |-> Some(3000),
    total_score |-> Some(4000), grade |-> "F9", grade_point |-> Some(0)],
   [continuous_assessment_score |-> Some(2999), exam_score |-> Some(4000),
    total_score |-> Some(6999), grade |-> "", grade_point |-> None],
   [continuous_assessment_score |-> None, exam_score |-> None,
    total_score |-> None, grade |-> "", grade_point |-> None]}

\* The TermGrade rows of the report-card requests: student 1 takes
\* class-subjects 1 and 2 in grading period 1 and class-subject 1 in grading
\* period 2; student 2 takes class-subject 1 in grading period 1.
ReportTermGradeKeys == {<<1, 1, 1>>, <<1, 2, 1>>, <<1, 1, 2>>, <<2, 1, 1>>}

\* The rows entered under each of those keys.
RowsFor(key) ==
  IF key[1] = 1 /\ key[3] = 1 THEN TermGradeRows
  ELSE {r \in TermGradeRows : r.grade = "B3"}

\* (enrollment.student, grading_period) of the ReportCard that is compiled.
ReportCardKeys == {<<1, 1>>}

\* A quotient n / d of two Decimals or ints, kept exact.
Frac(n, d) == [num |-> n, den |-> d]

\* A ReportCard as first inserted (models.py 547-588).
NewReportCard ==
  [total_score |-> None, average_score |-> None, gpa |-> None,
   days_present |-> 0, days_absent |-> 0, days_school_opened |-> 0,
   attendance_percentage |-> None]

\* The TermGrade query without its grading_period filter.
TermGradesOf_any_period(TG, enrollment, grading_period) ==
  {k \in DOMAIN TG : k[1] = enrollment}

\* TermGrade.objects.filter(enrollment=..., grading_period=...): the keys of
\* the rows.
TermGradesOf(TG, enrollment, grading_period) ==
  {k \in DOMAIN TG : k[1] = enrollment /\ k[3] = grading_period}

\* term_grades.count().
CountOf(TG, tgs) == Cardinality(tgs)

\* sum(tg.<field> for tg in term_grades if tg.<field>): None and zero are
\* both falsy.
RECURSIVE SumTruthy(_, _, _)
SumTruthy(TG, tgs, field) ==
  IF tgs = {} THEN 0
  ELSE LET k == CHOOSE x \in tgs : TRUE
           v == TG[k][field]
       IN  (IF v = None \/ Val(v) = 0 THEN 0 ELSE Val(v))
             + SumTruthy(TG, tgs \ {k}, field)

\* The attendance query, with the end date left out.
RecordsInPeriod_end_excluded(A, student, grading_period) ==
  {r \in A : /\ r.student = student
             /\ SessionDate[r.session] >= PeriodDates[grading_period].start_date
             /\ SessionDate[r.session] < PeriodDates[grading_period].end_date}

\* AttendanceRecord.objects.filter(student=..., session__date__gte=...,
\* session__date__lte=...).
RecordsInPeriod(A, student, grading_period) ==
  {r \in A : /\ r.student = student
             /\ SessionDate[r.session] >= PeriodDates[grading_period].start_date
             /\ SessionDate[r.session] <= PeriodDates[grading_period].end_date}

\* ReportCard.calculate_overall_metrics on the object `self` of `key`, up to
\* save().
calculate_overall_metrics(TG, A, key, self) ==
  LET tgs     == TermGradesOf(TG, key[1], key[2])
      total   == SumTruthy(TG, tgs, "total_score")
      count   == CountOf(TG, tgs)
      gpa_sum == SumTruthy(TG, tgs, "grade_point")
      records == RecordsInPeriod(A, key[1], key[2])
      present == Cardinality({r \in records : r.status \in {"present", "late"}})
      absent  == Cardinality({r \in records : r.status = "absent"})
      opened  == Cardinality({SessionDate[r.session] : r \in records})
  IN  [total_score   |-> IF tgs # {} THEN Some(Frac(total, 1)) ELSE self.total_score,
       average_score |-> IF tgs # {}
                           THEN (IF count > 0 THEN Some(Frac(total, count)) ELSE None)
                           ELSE self.average_score,
       gpa           |-> IF tgs # {}
                           THEN (IF count > 0 THEN Some(Frac(gpa_sum, count)) ELSE None)
                           ELSE self.gpa,
       days_present       |-> present,
       days_absent        |-> absent,
       days_school_opened |-> opened,
       attendance_percentage |->
         IF opened > 0 THEN Some(Frac(present * 100 * 100, opened))
         ELSE self.attendance_percentage]

\* A quotient rounded to the two places of its column (cents), halves up.
Round2(f) == IF f = None THEN None
             ELSE Some((2 * Val(f).num + Val(f).den) \div (2 * Val(f).den))

\* The ReportCard row save() writes for an object.
StoredReport(obj) ==
  [total_score   |-> Round2(obj.total_score),
   average_score |-> Round2(obj.average_score),
   gpa           |-> Round2(obj.gpa),
   days_present       |-> obj.days_present,
   days_absent        |-> obj.days_absent,
   days_school_opened |-> obj.days_school_opened,
   attendance_percentage |-> Round2(obj.attendance_percentage)]

\* The cents of a column as the object holds them.
AsFrac(c) == IF c = None THEN None ELSE Some(Frac(Val(c), 1))

\* The ReportCard object a query builds from a row.
LoadedReport(row) ==
  [total_score   |-> AsFrac(row.total_score),
   average_score |-> AsFrac(row.average_score),
   gpa           |-> AsFrac(row.gpa),
   days_present       |-> row.days_present,
   days_absent        |-> row.days_absent,
   days_school_opened |-> row.days_school_opened,
   attendance_percentage |-> AsFrac(row.attendance_percentage)]

\* ------------------------------------------------- calendar and types
\* The primary keys of the two terms of the academic year; a grading period
\* has that of its term (OneToOneField).
TermIds == {1, 2}

\* The primary keys of the assessment types the catalogue names by code.
TypePk == [QZ |-> 1, EXAM |-> 2]

\* The AssessmentType rows setup_grading_scale creates for the catalogue.
InitialTypes ==
  <<[code |-> <<"Q", "Z">>, name |-> "Quiz"],
    [code |-> <<"E", "X", "A", "M">>, name |-> "End of Term Exam"]>>

\* No calendar or assessment-type request has been handled.
NoRequest == [op |-> "", pk |-> 0, ok |-> FALSE, is_current |-> FALSE, code |-> <<>>]

\* A request, as the ghost variable records it.
Request(op, pk, ok, is_current, code) ==
  [op |-> op, pk |-> pk, ok |-> ok, is_current |-> is_current, code |-> code]

\* Term.save without the update of the other rows.
Term_save_keeps_others(T, pk, row) ==
  [t \in DOMAIN T \cup {pk} |-> IF t = pk THEN row ELSE T[t]]

\* Term.save: a current term makes every other term not current.
Term_save(T, pk, row) ==
  [t \in DOMAIN T \cup {pk} |->
     IF t = pk THEN row
     ELSE IF row.is_current THEN [T[t] EXCEPT !.is_current = FALSE] ELSE T[t]]

\* GradingPeriod.save without the update of the other rows.
GradingPeriod_save_keeps_others(P, pk, row) ==
  [p \in DOMAIN P \cup {pk} |-> IF p = pk THEN row ELSE P[p]]

\* GradingPeriod.save: when the saved period is current, every current row
\* is made not current before the period's own row is written.
GradingPeriod_save(P, pk, row) ==
  [p \in DOMAIN P \cup {pk} |->
     IF p = pk THEN row
     ELSE IF row.is_current THEN [P[p] EXCEPT !.is_current = FALSE] ELSE P[p]]

\* str.upper on the letters the codes below are written with.
UpperChar(c) ==
  CASE c = "c" -> "C"
    [] c = "t" -> "T"
    [] c = "q" -> "Q"
    [] c = "z" -> "Z"
    [] OTHER -> c

upper(code) == [i \in DOMAIN code |-> UpperChar(code[i])]

\* clean_code returning the code as typed.
clean_code_as_typed(code) == code

\* AssessmentTypeForm.clean_code.
clean_code(code) == IF code # <<>> THEN upper(code) ELSE code

\* The unique checks of name and code (unique=True) for the row of primary
\* key pk: no other row has the same name or the same code.
validate_unique(T, pk, row) ==
  \A t \in DOMAIN T \ {pk} : T[t].code # row.code /\ T[t].name # row.name

\* The in-use check of assessment_type_delete, never finding an assessment.
TypeInUse_never(A, pk) == FALSE

\* SubjectAssessment.objects.filter(assessment_type=...).exists().
TypeInUse(A, pk) == \E a \in A : TypePk[Catalogue[a].assessment_type] = pk

\* The codes and names typed into the assessment-type forms.
TypeCodes == {<<"c", "t">>, <<"C", "T">>, <<"q", "z">>}
TypeNames == {"Class Test", "Test"}

\* The primary key the next inserted AssessmentType gets: one more than the
\* largest in use.
NextTypePk ==
  1 + (CHOOSE m \in DOMAIN assessment_types \cup {Len(InitialTypes)} :
         \A t \in DOMAIN assessment_types \cup {Len(InitialTypes)} : t <= m)

\* The rows a deletion of grading period pk cascades to (on_delete=CASCADE):
\* what is left of each table.
AssessmentsLeft(pk) == {a \in assessments : Catalogue[a].grading_period # pk}
GradesLeft(pk) ==
  SetToBag({r \in BagToSet(grades) : Catalogue[r.assessment].grading_period # pk})
TermGradesLeft(pk) ==
  [k \in {x \in DOMAIN term_grades : x[3] # pk} |-> term_grades[k]]
PositionsLeft(pk) ==
  [k \in {x \in DOMAIN class_position : x[3] # pk} |-> class_position[k]]
ReportCardsLeft(pk) ==
  [k \in {x \in DOMAIN report_cards : x[2] # pk} |-> report_cards[k]]

\* ------------------------------------------------------------------ Init
Init ==
  /\ assessments = {}
  /\ grades = EmptyBag
  /\ scale = {}
  /\ term_grades = <<>>
  /\ last_calc = NoCall
  /\ form = NoForm
  /\ txn = [p \in Requests |-> Idle]
  /\ report_cards = <<>>
  /\ attendance = {}
  /\ last_report = NoReport
  /\ terms = [t \in TermIds |-> [is_current |-> FALSE]]
  /\ periods = [p \in TermIds |-> [is_current |-> FALSE]]
  /\ assessment_types = InitialTypes
  /\ last_request = NoRequest
  /\ class_position = <<>>
  /\ last_rank = None
  /\ teacher_comment = [k \in TermGradeKeys |-> ""]
  /\ calc = [p \in CalcRequests |-> NoCalc]
  /\ last_save = 0
  /\ period_txn = [p \in Requests |-> IdlePeriod]
  /\ max_score = [a \in DOMAIN Catalogue |-> Catalogue[a].max_score]
  /\ sessions = [s \in DOMAIN SessionDate |-> [is_finalized |-> FALSE]]
  /\ session_txn = [p \in Requests |-> IdleSession]

\* --------------------------------------------------------------- actions
\* The admin adds the next SubjectAssessment of the catalogue.
CreateAssessment ==
  /\ Cardinality(assessments) < Cardinality(LedgerAssessments)
  /\ assessments' = assessments \cup {Cardinality(assessments) + 1}
  /\ last_calc' = NoCall
  /\ UNCHANGED <<more_vars, entry_vars, grades, scale, term_grades>>

\* The row a StudentGrade form builds.
GradeRow(a, student, score, is_excused) ==
  [assessment |-> a, student |-> student, score |-> score, is_excused |-> is_excused]

\* The table without its unique constraint.
PairFree_unconstrained(G, a, student) == TRUE

\* unique_together (assessment, student): no stored row has the pair.
PairFree(G, a, student) ==
  \A r \in BagToSet(G) : ~(r.assessment = a /\ r.student = student)

\* The admin adds a StudentGrade.  A positive, non-excused score added right
\* after a calculation keeps that calculation in hand, marked `added`.
AdminAddGrade(a, student, score, is_excused) ==
  /\ a \in assessments
  /\ BagCardinality(grades) < MaxGrades
  /\ StudentGrade_clean(score, a)
  /\ PairFree(grades, a, student)
  /\ grades' = grades (+) SetToBag({GradeRow(a, student, score, is_excused)})
  /\ last_calc' = IF /\ last_calc.key # <<>>
                     /\ ~last_calc.added
                     /\ ~is_excused
                     /\ score # None
                     /\ Val(score) > 0
                    THEN [last_calc EXCEPT !.added = TRUE]
                    ELSE NoCall
  /\ UNCHANGED <<more_vars, entry_vars, assessments, scale, term_grades>>

\* The stored rows of a pair.
RowsOf(G, a, student) ==
  {r \in BagToSet(G) : r.assessment = a /\ r.student = student}

\* The admin edits the score and the excused flag of the stored StudentGrade
\* of a pair.
AdminChangeGrade(a, student, score, is_excused) ==
  /\ RowsOf(grades, a, student) # {}
  /\ StudentGrade_clean(score, a)
  /\ LET r == CHOOSE x \in RowsOf(grades, a, student) : TRUE
     IN  /\ GradeRow(a, student, score, is_excused) # r
         /\ grades' = (grades (-) SetToBag({r}))
                        (+) SetToBag({GradeRow(a, student, score, is_excused)})
  /\ last_calc' = NoCall
  /\ UNCHANGED <<more_vars, entry_vars, assessments, scale, term_grades>>

\* The admin deletes the StudentGrade of a pair.
AdminDeleteGrade(a, student) ==
  /\ RowsOf(grades, a, student) # {}
  /\ grades' = grades (-) SetToBag({CHOOSE x \in RowsOf(grades, a, student) : TRUE})
  /\ last_calc' = NoCall
  /\ UNCHANGED <<more_vars, entry_vars, assessments, scale, term_grades>>

\* setup_grading_scale: update_or_create of every default band, by grade.
SetupGradingScale ==
  /\ scale' = {b \in scale : \A d \in DefaultScale : d.grade # b.grade} \cup DefaultScale
  /\ scale' # scale
  /\ last_calc' = NoCall
  /\ UNCHANGED <<more_vars, entry_vars, assessments, grades, term_grades>>

\* The admin adds a band (grade is unique).
AdminAddBand(b) ==
  /\ \A c \in scale : c.grade # b.grade
  /\ scale' = scale \cup {b}
  /\ last_calc' = NoCall
  /\ UNCHANGED <<more_vars, entry_vars, assessments, grades, term_grades>>

\* The admin deletes a band.
AdminDeleteBand(b) ==
  /\ b \in scale
  /\ scale' = scale \ {b}
  /\ last_calc' = NoCall
  /\ UNCHANGED <<more_vars, entry_vars, assessments, grades, term_grades>>

\* The admin adds the TermGrade row of a key (unique_together).
AdminAddTermGrade(key) ==
  /\ key \notin DOMAIN term_grades
  /\ key[3] \in DOMAIN periods
  /\ term_grades' = [k \in DOMAIN term_grades \cup {key} |->
                       IF k = key THEN NewTermGrade ELSE term_grades[k]]
  /\ class_position' = [k \in DOMAIN term_grades \cup {key} |->
                          IF k = key THEN None ELSE class_position[k]]
  /\ last_rank' = None
  /\ last_calc' = NoCall
  /\ last_report' = NoReport
  /\ UNCHANGED <<report_cards, attendance, admin_vars>>
  /\ UNCHANGED <<entry_vars, other_vars, assessments, grades, scale>>

\* The admin deletes a TermGrade row.
AdminDeleteTermGrade(key) ==
  /\ key \in DOMAIN term_grades
  /\ term_grades' = [k \in DOMAIN term_grades \ {key} |-> term_grades[k]]
  /\ class_position' = [k \in DOMAIN term_grades \ {key} |-> class_position[k]]
  /\ last_rank' = None
  /\ last_calc' = NoCall
  /\ last_report' = NoReport
  /\ UNCHANGED <<report_cards, attendance, admin_vars>>
  /\ UNCHANGED <<entry_vars, other_vars, assessments, grades, scale>>

\* A request loads the TermGrade of `key` and calls calculate_scores on it.
\* When the previous step added a score to the ledger this key was just
\* calculated from, `before` keeps the total of that earlier calculation.
CalculateScores(key) ==
  /\ key \in DOMAIN term_grades
  /\ LET obj == calculate_scores(grades, key, Loaded(term_grades[key]))
     IN  /\ term_grades' = [term_grades EXCEPT ![key] = Stored(obj)]
         /\ last_calc' = [key |-> key, obj |-> obj, calls |-> 1, added |-> FALSE,
                          before |-> IF last_calc.key = key /\ last_calc.added
                                       THEN last_calc.obj.total_score ELSE None]
  /\ UNCHANGED <<more_vars, entry_vars, assessments, grades, scale>>

\* The same request calls calculate_scores on the same object once more.
CalculateAgain ==
  /\ last_calc.key # <<>>
  /\ ~last_calc.added
  /\ last_calc.calls = 1
  /\ LET obj == calculate_scores(grades, last_calc.key, last_calc.obj)
     IN  /\ term_grades' = [term_grades EXCEPT ![last_calc.key] = Stored(obj)]
         /\ last_calc' = [last_calc EXCEPT !.obj = obj, !.calls = 2]
  /\ UNCHANGED <<more_vars, entry_vars, assessments, grades, scale>>

Next ==
  \/ CreateAssessment
  \/ \E pair \in GradePairs, is_excused \in BOOLEAN :
       \E score \in ScoreChoices[pair[1]] :
         AdminAddGrade(pair[1], pair[2], score, is_excused)
  \/ \E pair \in GradePairs, is_excused \in BOOLEAN :
       \E score \in ScoreChoices[pair[1]] :
         AdminChangeGrade(pair[1], pair[2], score, is_excused)
  \/ \E pair \in GradePairs : AdminDeleteGrade(pair[1], pair[2])
  \/ SetupGradingScale
  \/ \E b \in CustomBands : AdminAddBand(b)
  \/ \E b \in CustomBands : AdminDeleteBand(b)
  \/ \E key \in TermGradeKeys : AdminAddTermGrade(key)
  \/ \E key \in TermGradeKeys : AdminDeleteTermGrade(key)
  \/ \E key \in TermGradeKeys : CalculateScores(key)
  \/ CalculateAgain

Spec == Init /\ [][Next]_vars


\* ------------------------------------------------- form specification
\* The pairs scores are recorded for through the form and by the concurrent
\* requests.
EntryPairs == {<<1, 1>>, <<1, 2>>}

\* The scores the concurrent requests record (cents).
RequestScores == {Some(667), Some(2000)}

\* The scores submitted for an assessment: empty, -0.01, 0, half of
\* max_score, max_score and max_score + 0.01.
ScoreInputs(a) ==
  {None, Some(0 - 1), Some(0), Some(Catalogue[a].max_score * 50),
   Some(Catalogue[a].max_score * 100), Some(Catalogue[a].max_score * 100 + 1)}

\* The ledger after save() of a valid form: the pair's row is updated when
\* the form was bound to it, and inserted otherwise.
SavedGrade(G, a, student, score, is_excused) ==
  IF RowsOf(G, a, student) = {}
    THEN G (+) SetToBag({GradeRow(a, student, score, is_excused)})
    ELSE (G (-) SetToBag({CHOOSE r \in RowsOf(G, a, student) : TRUE}))
           (+) SetToBag({GradeRow(a, student, score, is_excused)})

\* A score is recorded through StudentGradeForm for the pair (a, student):
\* the form is bound to the submitted score and is_excused, with or without
\* the assessment keyword, and saved when it is valid.
SubmitStudentGradeForm(a, student, score, is_excused, with_assessment) ==
  /\ a \in assessments
  /\ RowsOf(grades, a, student) # {} \/ BagCardinality(grades) < MaxGrades
  /\ LET data   == [score |-> score, is_excused |-> is_excused, remarks |-> ""]
         result == StudentGradeForm_clean(
                     data, IF with_assessment THEN Some(a) ELSE None, a)
     IN  /\ grades' = IF result.valid
                        THEN SavedGrade(grades, a, student, result.score,
                                        result.is_excused)
                        ELSE grades
         /\ form' = [pair |-> <<a, student>>, score |-> score,
                     is_excused |-> is_excused, valid |-> result.valid]
  /\ last_calc' = NoCall
  /\ UNCHANGED <<more_vars, assessments, scale, term_grades, txn>>

NextForm ==
  \/ CreateAssessment
  \/ \E pair \in EntryPairs, is_excused \in BOOLEAN, with_assessment \in BOOLEAN :
       \E score \in ScoreInputs(pair[1]) :
         SubmitStudentGradeForm(pair[1], pair[2], score, is_excused, with_assessment)

SpecForm == Init /\ [][NextForm]_vars

\* --------------------------------------------- concurrent score entry
\* Request p starts recording `score` for a pair: it looks the pair up and
\* will update the row when there is one, and insert a row otherwise.
LookUp(p, a, student, score) ==
  /\ txn[p].pc = "idle"
  /\ a \in assessments
  /\ StudentGrade_clean(score, a)
  /\ txn' = [txn EXCEPT ![p] = [pc |-> "write", pair |-> <<a, student>>,
                                score |-> score,
                                found |-> RowsOf(grades, a, student) # {}]]
  /\ UNCHANGED <<more_vars, assessments, grades, calc_vars, form>>

\* Request p writes.  The UPDATE changes the pair's row; the INSERT is
\* refused with IntegrityError when unique_together finds the pair stored.
Write(p) ==
  /\ txn[p].pc = "write"
  /\ LET a       == txn[p].pair[1]
         student == txn[p].pair[2]
         row     == GradeRow(a, student, txn[p].score, FALSE)
     IN  IF txn[p].found
           THEN /\ grades' = SavedGrade(grades, a, student, txn[p].score, FALSE)
                /\ txn' = [txn EXCEPT ![p].pc = "done"]
           ELSE IF PairFree(grades, a, student)
             THEN /\ grades' = grades (+) SetToBag({row})
                  /\ txn' = [txn EXCEPT ![p].pc = "done"]
             ELSE /\ grades' = grades
                  /\ txn' = [txn EXCEPT ![p].pc = "failed"]
  /\ UNCHANGED <<more_vars, assessments, calc_vars, form>>

\* The request is over; its worker takes the next one.
Finish(p) ==
  /\ txn[p].pc \in {"done", "failed"}
  /\ txn' = [txn EXCEPT ![p] = Idle]
  /\ UNCHANGED <<more_vars, assessments, grades, calc_vars, form>>

NextUpsert ==
  \/ CreateAssessment
  \/ \E p \in Requests, pair \in EntryPairs :
       \E score \in RequestScores : LookUp(p, pair[1], pair[2], score)
  \/ \E p \in Requests : Write(p)
  \/ \E p \in Requests : Finish(p)

SpecUpsert == Init /\ [][NextUpsert]_vars

\* ---------------------------------------------- report-card requests
\* The admin edits the calculated columns of a TermGrade row.
AdminChangeTermGrade(key, row) ==
  /\ key \in DOMAIN term_grades
  /\ term_grades[key] # row
  /\ term_grades' = [term_grades EXCEPT ![key] = row]
  /\ last_calc' = NoCall
  /\ last_report' = NoReport
  /\ last_rank' = None
  /\ UNCHANGED <<report_cards, attendance, admin_vars, class_position>>
  /\ UNCHANGED <<entry_vars, other_vars, assessments, grades, scale>>

\* The admin adds the ReportCard row of a key (unique_together).
AdminAddReportCard(key) ==
  /\ key \notin DOMAIN report_cards
  /\ key[2] \in DOMAIN periods
  /\ report_cards' = [k \in DOMAIN report_cards \cup {key} |->
                        IF k = key THEN NewReportCard ELSE report_cards[k]]
  /\ last_report' = NoReport
  /\ UNCHANGED <<attendance, admin_vars, rank_vars>>
  /\ UNCHANGED <<entry_vars, other_vars, assessments, grades, calc_vars>>

\* The admin deletes a ReportCard row.
AdminDeleteReportCard(key) ==
  /\ key \in DOMAIN report_cards
  /\ report_cards' = [k \in DOMAIN report_cards \ {key} |-> report_cards[k]]
  /\ last_report' = NoReport
  /\ UNCHANGED <<attendance, admin_vars, rank_vars>>
  /\ UNCHANGED <<entry_vars, other_vars, assessments, grades, calc_vars>>

\* A request loads the ReportCard of `key` and calls
\* calculate_overall_metrics on it.
CalculateOverallMetrics(key) ==
  /\ key \in DOMAIN report_cards
  /\ LET obj == calculate_overall_metrics(term_grades, attendance, key,
                                          LoadedReport(report_cards[key]))
     IN  /\ report_cards' = [report_cards EXCEPT ![key] = StoredReport(obj)]
         /\ last_report' = [key |-> key, obj |-> obj]
  /\ UNCHANGED <<attendance, admin_vars, rank_vars>>
  /\ UNCHANGED <<entry_vars, other_vars, assessments, grades, calc_vars>>

NextReport ==
  \/ \E key \in ReportTermGradeKeys : AdminAddTermGrade(key)
  \/ \E key \in ReportTermGradeKeys : AdminDeleteTermGrade(key)
  \/ \E key \in ReportTermGradeKeys :
       \E row \in RowsFor(key) : AdminChangeTermGrade(key, row)
  \/ \E key \in ReportCardKeys : AdminAddReportCard(key)
  \/ \E key \in ReportCardKeys : AdminDeleteReportCard(key)
  \/ \E key \in ReportCardKeys : CalculateOverallMetrics(key)

SpecReport == Init /\ [][NextReport]_vars

\* The (session, student) pairs attendance is marked for: student 1 in every
\* session, student 2 in the second.
AttendancePairs == {<<1, 1>>, <<2, 1>>, <<3, 1>>, <<4, 1>>, <<5, 1>>, <<2, 2>>}

\* The AttendanceRecord of a student in a session is added (unique_together).
AdminAddAttendanceRecord(session, student, status) ==
  /\ session \in DOMAIN sessions
  /\ \A r \in attendance : ~(r.session = session /\ r.student = student)
  /\ Cardinality(attendance) < MaxRecords
  /\ attendance' = attendance \cup
                     {[session |-> session, student |-> student, status |-> status]}
  /\ last_report' = NoReport
  /\ UNCHANGED <<report_cards, admin_vars, rank_vars>>
  /\ UNCHANGED <<entry_vars, other_vars, assessments, grades, calc_vars>>

\* The AttendanceRecord of a student in a session is deleted.
AdminDeleteAttendanceRecord(session, student) ==
  /\ \E r \in attendance : r.session = session /\ r.student = student
  /\ attendance' = {r \in attendance : ~(r.session = session /\ r.student = student)}
  /\ last_report' = NoReport
  /\ UNCHANGED <<report_cards, admin_vars, rank_vars>>
  /\ UNCHANGED <<entry_vars, other_vars, assessments, grades, calc_vars>>

NextAttendance ==
  \/ \E pair \in AttendancePairs, status \in Statuses :
       AdminAddAttendanceRecord(pair[1], pair[2], status)
  \/ \E pair \in AttendancePairs : AdminDeleteAttendanceRecord(pair[1], pair[2])
  \/ \E key \in ReportCardKeys : AdminAddReportCard(key)
  \/ \E key \in ReportCardKeys : AdminDeleteReportCard(key)
  \/ \E key \in ReportCardKeys : CalculateOverallMetrics(key)

SpecAttendance == Init /\ [][NextAttendance]_vars

\* ------------------------------------------------- calendar requests
\* term_create: Term.objects.create.
term_create(pk, is_current) ==
  /\ pk \notin DOMAIN terms
  /\ terms' = Term_save(terms, pk, [is_current |-> is_current])
  /\ last_request' = Request("term_create", pk, TRUE, is_current, <<>>)
  /\ UNCHANGED <<periods, assessment_types, report_vars, rank_vars>>
  /\ UNCHANGED <<entry_vars, other_vars, assessments, grades, calc_vars>>

\* term_delete: term.delete() without any check; the term's grading period
\* and everything that references the period go with it.
term_delete(pk) ==
  /\ pk \in DOMAIN terms
  /\ terms' = [t \in DOMAIN terms \ {pk} |-> terms[t]]
  /\ periods' = [p \in DOMAIN periods \ {pk} |-> periods[p]]
  /\ assessments' = AssessmentsLeft(pk)
  /\ grades' = GradesLeft(pk)
  /\ term_grades' = TermGradesLeft(pk)
  /\ class_position' = PositionsLeft(pk)
  /\ last_rank' = None
  /\ report_cards' = ReportCardsLeft(pk)
  /\ last_request' = Request("term_delete", pk, TRUE, FALSE, <<>>)
  /\ last_calc' = NoCall
  /\ last_report' = NoReport
  /\ UNCHANGED <<assessment_types, attendance, scale, entry_vars, other_vars>>

\* grading_period_create: a valid GradingPeriodForm (the term exists and has
\* no grading period yet) is saved.
grading_period_create(term, is_current) ==
  /\ term \in DOMAIN terms
  /\ term \notin DOMAIN periods
  /\ periods' = GradingPeriod_save(periods, term, [is_current |-> is_current])
  /\ last_request' = Request("period_create", term, TRUE, is_current, <<>>)
  /\ UNCHANGED <<terms, assessment_types, report_vars, rank_vars>>
  /\ UNCHANGED <<entry_vars, other_vars, assessments, grades, calc_vars>>

\* grading_period_edit: a valid GradingPeriodForm of an existing period is
\* saved.
grading_period_edit(pk, is_current) ==
  /\ pk \in DOMAIN periods
  /\ periods' = GradingPeriod_save(periods, pk, [periods[pk] EXCEPT !.is_current = is_current])
  /\ last_request' = Request("period_edit", pk, TRUE, is_current, <<>>)
  /\ UNCHANGED <<terms, assessment_types, report_vars, rank_vars>>
  /\ UNCHANGED <<entry_vars, other_vars, assessments, grades, calc_vars>>

\* set_current_period.
set_current_period(pk) ==
  /\ pk \in DOMAIN periods
  /\ periods' = GradingPeriod_save(periods, pk, [periods[pk] EXCEPT !.is_current = TRUE])
  /\ last_request' = Request("set_current_period", pk, TRUE, TRUE, <<>>)
  /\ UNCHANGED <<terms, assessment_types, report_vars, rank_vars>>
  /\ UNCHANGED <<entry_vars, other_vars, assessments, grades, calc_vars>>

\* grading_period_delete: refused when a SubjectAssessment references the
\* period; otherwise period.delete(), which cascades.
grading_period_delete(pk) ==
  /\ pk \in DOMAIN periods
  /\ IF \E a \in assessments : Catalogue[a].grading_period = pk
       THEN /\ last_request' = Request("period_delete", pk, FALSE, FALSE, <<>>)
            /\ UNCHANGED <<periods, term_grades, rank_vars, report_cards,
                           last_calc, last_report>>
       ELSE /\ periods' = [p \in DOMAIN periods \ {pk} |-> periods[p]]
            /\ term_grades' = TermGradesLeft(pk)
            /\ class_position' = PositionsLeft(pk)
            /\ last_rank' = None
            /\ report_cards' = ReportCardsLeft(pk)
            /\ last_request' = Request("period_delete", pk, TRUE, FALSE, <<>>)
            /\ last_calc' = NoCall
            /\ last_report' = NoReport
  /\ UNCHANGED <<terms, assessment_types, attendance, assessments, grades, scale,
                 entry_vars, other_vars>>

\* The admin adds a SubjectAssessment of the catalogue; its grading period
\* and its assessment type exist.
AdminAddAssessment(a) ==
  /\ a \notin assessments
  /\ Catalogue[a].grading_period \in DOMAIN periods
  /\ TypePk[Catalogue[a].assessment_type] \in DOMAIN assessment_types
  /\ assessments' = assessments \cup {a}
  /\ last_calc' = NoCall
  /\ last_request' = NoRequest
  /\ UNCHANGED <<terms, periods, assessment_types, report_vars, rank_vars>>
  /\ UNCHANGED <<entry_vars, other_vars, grades, scale, term_grades>>

\* The SubjectAssessment, TermGrade and ReportCard rows the calendar requests
\* meet: one assessment in each grading period, student 1's term grade in
\* each, and the student's report card of the first.
PeriodAssessments == {1, 4}
PeriodTermGradeKeys == {<<1, 1, 1>>, <<1, 1, 2>>}

NextPeriods ==
  \/ \E pk \in TermIds, is_current \in BOOLEAN : term_create(pk, is_current)
  \/ \E pk \in TermIds : term_delete(pk)
  \/ \E pk \in TermIds, is_current \in BOOLEAN : grading_period_create(pk, is_current)
  \/ \E pk \in TermIds, is_current \in BOOLEAN : grading_period_edit(pk, is_current)
  \/ \E pk \in TermIds : set_current_period(pk)
  \/ \E pk \in TermIds : grading_period_delete(pk)
  \/ \E a \in PeriodAssessments : AdminAddAssessment(a)
  \/ \E key \in PeriodTermGradeKeys : AdminAddTermGrade(key)
  \/ \E key \in ReportCardKeys : AdminAddReportCard(key)

SpecPeriods == Init /\ [][NextPeriods]_vars

\* ------------------------------------------- assessment-type requests
\* assessment_type_create: the form is saved when it is valid.
assessment_type_create(code, name) ==
  /\ NextTypePk <= MaxTypes
  /\ LET row == [code |-> clean_code(code), name |-> name]
         ok  == validate_unique(assessment_types, 0, row)
     IN  /\ assessment_types' =
              IF ok THEN [t \in DOMAIN assessment_types \cup {NextTypePk} |->
                            IF t = NextTypePk THEN row ELSE assessment_types[t]]
              ELSE assessment_types
         /\ last_request' = Request("type_create", NextTypePk, ok, FALSE, code)
  /\ UNCHANGED <<terms, periods, report_vars, rank_vars>>
  /\ UNCHANGED <<entry_vars, other_vars, assessments, grades, calc_vars>>

\* assessment_type_edit: the form of an existing type is saved when it is
\* valid.
assessment_type_edit(pk, code, name) ==
  /\ pk \in DOMAIN assessment_types
  /\ LET row == [code |-> clean_code(code), name |-> name]
         ok  == validate_unique(assessment_types, pk, row)
     IN  /\ assessment_types' =
              IF ok THEN [assessment_types EXCEPT ![pk] = row] ELSE assessment_types
         /\ last_request' = Request("type_edit", pk, ok, FALSE, code)
  /\ UNCHANGED <<terms, periods, report_vars, rank_vars>>
  /\ UNCHANGED <<entry_vars, other_vars, assessments, grades, calc_vars>>

\* assessment_type_delete: refused when a SubjectAssessment references the
\* type.
assessment_type_delete(pk) ==
  /\ pk \in DOMAIN assessment_types
  /\ IF TypeInUse(assessments, pk)
       THEN /\ last_request' = Request("type_delete", pk, FALSE, FALSE, <<>>)
            /\ UNCHANGED assessment_types
       ELSE /\ assessment_types' =
                 [t \in DOMAIN assessment_types \ {pk} |-> assessment_types[t]]
            /\ last_request' = Request("type_delete", pk, TRUE, FALSE, <<>>)
  /\ UNCHANGED <<terms, periods, report_vars, rank_vars>>
  /\ UNCHANGED <<entry_vars, other_vars, assessments, grades, calc_vars>>

\* The admin adds an AssessmentType: the admin's form has no clean_code.
AdminAddAssessmentType(code, name) ==
  /\ NextTypePk <= MaxTypes
  /\ LET row == [code |-> code, name |-> name]
     IN  /\ validate_unique(assessment_types, 0, row)
         /\ assessment_types' = [t \in DOMAIN assessment_types \cup {NextTypePk} |->
                                   IF t = NextTypePk THEN row ELSE assessment_types[t]]
  /\ last_request' = NoRequest
  /\ UNCHANGED <<terms, periods, report_vars, rank_vars>>
  /\ UNCHANGED <<entry_vars, other_vars, assessments, grades, calc_vars>>

\* The assessments of the catalogue the assessment-type requests meet: a
\* quiz and an exam.
TypeAssessments == {1, 2}

NextTypes ==
  \/ \E code \in TypeCodes, name \in TypeNames : assessment_type_create(code, name)
  \/ \E pk \in 1..MaxTypes, code \in TypeCodes, name \in TypeNames :
       assessment_type_edit(pk, code, name)
  \/ \E pk \in 1..MaxTypes : assessment_type_delete(pk)
  \/ \E code \in TypeCodes, name \in TypeNames : AdminAddAssessmentType(code, name)
  \/ \E a \in TypeAssessments : AdminAddAssessment(a)

SpecTypes == Init /\ [][NextTypes]_vars

\* -------------------------------------------------- class positions
\* The TermGrade rows that are ranked: three students in class-subject 1 and
\* one of them in class-subject 2, all in grading period 1.
RankKeys == {<<1, 1, 1>>, <<2, 1, 1>>, <<3, 1, 1>>, <<1, 2, 1>>}

\* The rows entered under those keys: totals of 75.00 and 60.00 and no total.
RankRows == {r \in TermGradeRows : r.total_score \in {Some(7500), Some(6000), None}}

\* The default ordering with total_score ascending.
Precedes_ascending(a, b) ==
  IF a.total_score = None THEN FALSE
  ELSE b.total_score = None \/ Val(a.total_score) < Val(b.total_score)

\* TermGrade.Meta.ordering = ['-total_score']: row a comes strictly before
\* row b (ORDER BY total_score DESC puts NULL first in PostgreSQL).
Precedes(a, b) ==
  IF a.total_score = None THEN b.total_score # None
  ELSE b.total_score # None /\ Val(a.total_score) > Val(b.total_score)

\* The orders in which the query of the ranking pass can return the rows of
\* a class-subject and grading period: rows that tie come in any order.
QueryOrders(TG, keys) ==
  {order \in [1..Cardinality(keys) -> keys] :
     /\ \A i, j \in DOMAIN order : i # j => order[i] # order[j]
     /\ \A i \in DOMAIN order :
          i < Cardinality(keys) => ~Precedes(TG[order[i + 1]], TG[order[i]])}

\* The ranking pass of a class-subject and grading period: the rows are read
\* in their order and numbered from 1.
RankClass(class_subject, grading_period) ==
  LET keys == {k \in DOMAIN term_grades :
                 k[2] = class_subject /\ k[3] = grading_period}
  IN  /\ keys # {}
      /\ \E order \in QueryOrders(term_grades, keys) :
           class_position' =
             [k \in DOMAIN class_position |->
                IF k \in keys
                  THEN Some(CHOOSE i \in DOMAIN order : order[i] = k)
                  ELSE class_position[k]]
      /\ last_rank' = Some(<<class_subject, grading_period>>)
      /\ UNCHANGED <<report_vars, admin_vars>>
      /\ UNCHANGED <<entry_vars, other_vars, assessments, grades, calc_vars>>

NextRank ==
  \/ \E key \in RankKeys : AdminAddTermGrade(key)
  \/ \E key \in RankKeys : AdminDeleteTermGrade(key)
  \/ \E key \in RankKeys : \E row \in RankRows : AdminChangeTermGrade(key, row)
  \/ \E class_subject \in {1, 2} : RankClass(class_subject, 1)

SpecRank == Init /\ [][NextRank]_vars

\* ------------------------------------------------- assessment weights
\* The admin deletes a SubjectAssessment; its StudentGrade rows go with it.
AdminDeleteAssessment(a) ==
  /\ a \in assessments
  /\ assessments' = assessments \ {a}
  /\ grades' = SetToBag({r \in BagToSet(grades) : r.assessment # a})
  /\ last_calc' = NoCall
  /\ last_request' = NoRequest
  /\ UNCHANGED <<terms, periods, assessment_types, report_vars, rank_vars>>
  /\ UNCHANGED <<entry_vars, other_vars, scale, term_grades>>

NextWeights ==
  \/ \E a \in DOMAIN Catalogue : AdminAddAssessment(a)
  \/ \E a \in DOMAIN Catalogue : AdminDeleteAssessment(a)
  \/ \E pair \in GradePairs, is_excused \in BOOLEAN :
       \E score \in ScoreChoices[pair[1]] :
         AdminAddGrade(pair[1], pair[2], score, is_excused)
  \/ \E pair \in GradePairs : AdminDeleteGrade(pair[1], pair[2])

SpecWeights == Init /\ [][NextWeights]_vars

\* --------------------------------------------- concurrent recalculation
\* The assessments and the scores the recalculated TermGrade is made of.
CalcAssessments == {1, 2}
CalcPairs == {<<1, 1>>, <<2, 1>>}

\* What the admin types into teacher_comment and class_position.
Comments == {"", "Good"}
Positions == {None, Some(1)}

\* Request p loads the TermGrade of `key`.
LoadTermGrade(p, key) ==
  /\ calc[p].pc = "idle"
  /\ key \in DOMAIN term_grades
  /\ calc' = [calc EXCEPT ![p] =
                [pc |-> "loaded", key |-> key, obj |-> Loaded(term_grades[key]),
                 teacher_comment |-> teacher_comment[key],
                 class_position |-> class_position[key]]]
  /\ UNCHANGED <<assessments, grades, calc_vars, entry_vars, report_vars,
                 admin_vars, rank_vars, teacher_comment, last_save, beyond_calc>>

\* calculate_scores up to its save(): the queries and the assignments.
ComputeScores(p) ==
  /\ calc[p].pc = "loaded"
  /\ calc' = [calc EXCEPT ![p].pc = "computed",
                          ![p].obj = calculate_scores(grades, calc[p].key, calc[p].obj)]
  /\ UNCHANGED <<assessments, grades, calc_vars, entry_vars, report_vars,
                 admin_vars, rank_vars, teacher_comment, last_save, beyond_calc>>

\* self.save() of request p.
SaveTermGrade(p) ==
  /\ calc[p].pc = "computed"
  /\ calc[p].key \in DOMAIN term_grades
  /\ term_grades' = TermGrade_save(term_grades, calc[p].key, calc[p].obj)
  /\ teacher_comment' = [teacher_comment EXCEPT ![calc[p].key] = calc[p].teacher_comment]
  /\ class_position' = [class_position EXCEPT ![calc[p].key] = calc[p].class_position]
  /\ calc' = [calc EXCEPT ![p].pc = "done"]
  /\ last_save' = p
  /\ last_rank' = None
  /\ last_calc' = NoCall
  /\ last_report' = NoReport
  /\ UNCHANGED <<assessments, grades, scale, entry_vars, report_cards, attendance,
                 admin_vars, beyond_calc>>

\* The admin edits teacher_comment and class_position of a TermGrade row.
AdminEditTermGrade(key, comment, position) ==
  /\ key \in DOMAIN term_grades
  /\ <<comment, position>> # <<teacher_comment[key], class_position[key]>>
  /\ teacher_comment' = [teacher_comment EXCEPT ![key] = comment]
  /\ class_position' = [class_position EXCEPT ![key] = position]
  /\ last_rank' = None
  /\ UNCHANGED <<assessments, grades, calc_vars, entry_vars, report_vars,
                 admin_vars, calc, last_save, beyond_calc>>

NextCalc ==
  \/ \E a \in CalcAssessments : AdminAddAssessment(a)
  \/ \E pair \in CalcPairs : \E score \in ScoreChoices[pair[1]] :
       AdminAddGrade(pair[1], pair[2], score, FALSE)
  \/ SetupGradingScale
  \/ \E key \in TermGradeKeys : AdminAddTermGrade(key)
  \/ \E key \in TermGradeKeys, comment \in Comments, position \in Positions :
       AdminEditTermGrade(key, comment, position)
  \/ \E p \in CalcRequests, key \in TermGradeKeys : LoadTermGrade(p, key)
  \/ \E p \in CalcRequests : ComputeScores(p)
  \/ \E p \in CalcRequests : SaveTermGrade(p)

SpecCalc == Init /\ [][NextCalc]_vars

\* ------------------------------------------ concurrent current periods
\* What a set_current_period request leaves alone.
period_txn_frame ==
  <<assessments, grades, calc_vars, entry_vars, report_vars, rank_vars,
    terms, assessment_types, calc_txn_vars, max_score, session_vars>>

\* set_current_period or grading_period_edit of request p: get_object_or_404
\* finds the period and is_current is set on the object.
LoadPeriod(p, pk, is_current) ==
  /\ period_txn[p].pc = "idle"
  /\ pk \in DOMAIN periods
  /\ period_txn' = [period_txn EXCEPT ![p] =
                      [pc |-> "loaded", pk |-> pk, is_current |-> is_current]]
  /\ last_request' = NoRequest
  /\ UNCHANGED <<periods, period_txn_frame>>

\* GradingPeriod.save of a current period, first statement: the UPDATE of
\* the current rows.
ClearCurrent(p) ==
  /\ period_txn[p].pc = "loaded"
  /\ period_txn[p].is_current
  /\ periods' = [k \in DOMAIN periods |-> [periods[k] EXCEPT !.is_current = FALSE]]
  /\ period_txn' = [period_txn EXCEPT ![p].pc = "cleared"]
  /\ last_request' = NoRequest
  /\ UNCHANGED period_txn_frame

\* GradingPeriod.save, second statement: super().save() writes the row.
WritePeriod(p) ==
  /\ \/ period_txn[p].pc = "cleared"
     \/ period_txn[p].pc = "loaded" /\ ~period_txn[p].is_current
  /\ periods' = [periods EXCEPT ![period_txn[p].pk] =
                   [is_current |-> period_txn[p].is_current]]
  /\ period_txn' = [period_txn EXCEPT ![p].pc = "done"]
  /\ last_request' = NoRequest
  /\ UNCHANGED period_txn_frame

\* The response of request p has been sent.
RespondPeriod(p) ==
  /\ period_txn[p].pc = "done"
  /\ \A q \in Requests : period_txn[q].pc \in {"idle", "done"}
  /\ period_txn' = [period_txn EXCEPT ![p] = IdlePeriod]
  /\ last_request' = NoRequest
  /\ UNCHANGED <<periods, period_txn_frame>>

NextCurrent ==
  \/ \E p \in Requests, pk \in TermIds, is_current \in BOOLEAN :
       LoadPeriod(p, pk, is_current)
  \/ \E p \in Requests : ClearCurrent(p)
  \/ \E p \in Requests : WritePeriod(p)
  \/ \E p \in Requests : RespondPeriod(p)

SpecCurrent == Init /\ [][NextCurrent]_vars

\* ------------------------------------------------- edited assessments
\* The values the admin gives max_score: the catalogue's value and half of it.
MaxScoreChoices(a) == {Catalogue[a].max_score, Catalogue[a].max_score \div 2}

\* The admin (or SubjectAssessmentForm) saves an assessment with another
\* max_score: MinValueValidator(1) is the only check.
AdminEditAssessment(a, m) ==
  /\ a \in assessments
  /\ m >= 1
  /\ m # max_score[a]
  /\ max_score' = [max_score EXCEPT ![a] = m]
  /\ last_calc' = NoCall
  /\ UNCHANGED <<assessments, grades, scale, term_grades, entry_vars, report_vars,
                 admin_vars, rank_vars, calc_txn_vars, period_txn, session_vars>>

NextMaxScore ==
  \/ \E a \in CalcAssessments : AdminAddAssessment(a)
  \/ \E a \in CalcAssessments : \E m \in MaxScoreChoices(a) : AdminEditAssessment(a, m)
  \/ \E pair \in CalcPairs, is_excused \in BOOLEAN :
       \E score \in ScoreChoices[pair[1]] :
         AdminAddGrade(pair[1], pair[2], score, is_excused)
  \/ \E pair \in CalcPairs, is_excused \in BOOLEAN :
       \E score \in ScoreChoices[pair[1]] :
         AdminChangeGrade(pair[1], pair[2], score, is_excused)

SpecMaxScore == Init /\ [][NextMaxScore]_vars

\* ------------------------------------------------------- term requests
\* The primary keys a Term can get.
TermPks == 1..MaxTerms

\* term_create whose INSERT raises (a duplicate number, a malformed date):
\* Term.save has already run its UPDATE of the other rows.
term_create_rejected(is_current) ==
  /\ terms' = [t \in DOMAIN terms |->
                IF is_current THEN [terms[t] EXCEPT !.is_current = FALSE] ELSE terms[t]]
  /\ last_request' = Request("term_create", 0, FALSE, is_current, <<>>)
  /\ UNCHANGED <<periods, assessment_types, report_vars, rank_vars>>
  /\ UNCHANGED <<entry_vars, other_vars, assessments, grades, calc_vars>>

\* term_edit: the fields are set from the POST data; the term is saved when
\* full_clean passes (ok) and left as it was otherwise.
term_edit(pk, is_current, ok) ==
  /\ pk \in DOMAIN terms
  /\ terms' = IF ok THEN Term_save(terms, pk, [terms[pk] EXCEPT !.is_current = is_current])
                    ELSE terms
  /\ last_request' = Request("term_edit", pk, ok, is_current, <<>>)
  /\ UNCHANGED <<periods, assessment_types, report_vars, rank_vars>>
  /\ UNCHANGED <<entry_vars, other_vars, assessments, grades, calc_vars>>

NextTerms ==
  \/ \E pk \in TermPks, is_current \in BOOLEAN : term_create(pk, is_current)
  \/ \E is_current \in BOOLEAN : term_create_rejected(is_current)
  \/ \E pk \in TermPks, is_current \in BOOLEAN, ok \in BOOLEAN :
       term_edit(pk, is_current, ok)
  \/ \E pk \in TermPks : term_delete(pk)

SpecTerms == Init /\ [][NextTerms]_vars

\* --------------------------------------------- attendance requests
\* The session the requests are about, the student enrolled in its class
\* and the statuses the form carries.
MarkedSessions == {2}
EnrolledStudent == 1
MarkedStatuses == {"present", "absent"}

\* What a mark_attendance or session_delete request leaves alone.
session_txn_frame ==
  <<assessments, grades, calc_vars, entry_vars, report_cards, last_report,
    admin_vars, rank_vars, calc_txn_vars, period_txn, max_score>>

\* update_or_create(session=..., student=..., defaults={'status': ...}).
update_or_create(A, session, student, status) ==
  {r \in A : ~(r.session = session /\ r.student = student)}
    \cup {[session |-> session, student |-> student, status |-> status]}

\* Request p (mark_attendance with or without 'finalize', or session_delete)
\* loads the session and checks is_finalized: a finalized session ends the
\* request.
LoadSession(p, op, session, finalize, status) ==
  /\ session_txn[p].pc = "idle"
  /\ session \in DOMAIN sessions
  /\ session_txn' = [session_txn EXCEPT ![p] =
                       [pc |-> IF sessions[session].is_finalized THEN "done" ELSE "checked",
                        op |-> op, session |-> session,
                        finalize |-> finalize, status |-> status]]
  /\ UNCHANGED <<sessions, attendance, session_txn_frame>>

\* mark_attendance: the update_or_create of the loop. When the session row
\* is gone the INSERT fails and the request ends.
WriteRecords(p) ==
  /\ session_txn[p].pc = "checked"
  /\ session_txn[p].op = "mark"
  /\ IF session_txn[p].session \in DOMAIN sessions
       THEN /\ attendance' = update_or_create(attendance, session_txn[p].session,
                                              EnrolledStudent, session_txn[p].status)
            /\ session_txn' = [session_txn EXCEPT ![p].pc =
                                 IF session_txn[p].finalize THEN "marked" ELSE "done"]
       ELSE /\ attendance' = attendance
            /\ session_txn' = [session_txn EXCEPT ![p].pc = "done"]
  /\ UNCHANGED <<sessions, session_txn_frame>>

\* mark_attendance with 'finalize': session.is_finalized = True and
\* session.save(), which inserts the row when its UPDATE matches none.
FinalizeSession(p) ==
  /\ session_txn[p].pc = "marked"
  /\ sessions' = [s \in DOMAIN sessions \cup {session_txn[p].session} |->
                   IF s = session_txn[p].session THEN [is_finalized |-> TRUE]
                   ELSE sessions[s]]
  /\ session_txn' = [session_txn EXCEPT ![p].pc = "done"]
  /\ UNCHANGED <<attendance, session_txn_frame>>

\* session_delete: session.delete(), which takes the session's records.
DeleteSession(p) ==
  /\ session_txn[p].pc = "checked"
  /\ session_txn[p].op = "delete"
  /\ sessions' = [s \in DOMAIN sessions \ {session_txn[p].session} |-> sessions[s]]
  /\ attendance' = {r \in attendance : r.session # session_txn[p].session}
  /\ session_txn' = [session_txn EXCEPT ![p].pc = "done"]
  /\ UNCHANGED session_txn_frame

\* The response of request p has been sent.
RespondSession(p) ==
  /\ session_txn[p].pc = "done"
  /\ session_txn' = [session_txn EXCEPT ![p] = IdleSession]
  /\ UNCHANGED <<sessions, attendance, session_txn_frame>>

NextSessions ==
  \/ \E p \in Requests, session \in MarkedSessions, finalize \in BOOLEAN :
       \E status \in MarkedStatuses : LoadSession(p, "mark", session, finalize, status)
  \/ \E p \in Requests, session \in MarkedSessions :
       LoadSession(p, "delete", session, FALSE, "")
  \/ \E p \in Requests : WriteRecords(p)
  \/ \E p \in Requests : FinalizeSession(p)
  \/ \E p \in Requests : DeleteSession(p)
  \/ \E p \in Requests : RespondSession(p)

SpecSessions == Init /\ [][NextSessions]_vars

\* ===================================================================
\* Properties of TermGrade.calculate_scores
\* ===================================================================
\* A calculation has just returned and nothing was written since.
JustCalculated == last_calc.key # <<>> /\ ~last_calc.added

\* The ledger without its excused rows.
WithoutExcused(G) == SetToBag({r \in BagToSet(G) : ~r.is_excused})

\* The three totals of an object.
Totals(obj) ==
  <<obj.continuous_assessment_score, obj.exam_score, obj.total_score>>

\* The stored rows of `key`'s student that count: not excused, score not
\* NULL, on an assessment of the key's class-subject and grading period whose
\* type has is_exam = exam.
CountedRows(key, exam) ==
  {r \in BagToSet(grades) :
     /\ r.student = key[1]
     /\ ~r.is_excused
     /\ r.score # None
     /\ r.assessment \in assessments
     /\ Catalogue[r.assessment].class_subject = key[2]
     /\ Catalogue[r.assessment].grading_period = key[3]
     /\ AssessmentTypes[Catalogue[r.assessment].assessment_type].is_exam = exam}

\* (score / max_score * 100) * (weight / 100) of a row, in micros.
WeightedValue(r) ==
  ((Val(r.score) * 100) \div Catalogue[r.assessment].max_score)
    * Catalogue[r.assessment].weight

RECURSIVE SumWeighted(_)
SumWeighted(rows) ==
  IF rows = {}
    THEN 0
    ELSE LET r == CHOOSE x \in rows : TRUE
         IN  WeightedValue(r) + SumWeighted(rows \ {r})

\* C1: an excused StudentGrade adds nothing to the three totals, whatever
\* score it stores: the totals calculate_scores has just produced are those
\* it produces from the ledger with every excused row removed.
C1_ExcusedAddsNothing ==
  JustCalculated =>
    Totals(last_calc.obj)
      = Totals(calculate_scores(WithoutExcused(grades), last_calc.key,
                                Loaded(NewTermGrade)))

\* C1 witness: a calculation ran for a student who has an excused row with a
\* positive stored score on an assessment of the calculated class-subject.
C1_Witness ==
  /\ JustCalculated
  /\ \E r \in BagToSet(grades) :
       /\ r.is_excused
       /\ r.score # None
       /\ Val(r.score) > 0
       /\ r.student = last_calc.key[1]
       /\ r.assessment \in AssessmentsFor(last_calc.key[2], last_calc.key[3])
  /\ Val(last_calc.obj.total_score) > 0

\* C2: calculate_scores called a second time with nothing changed in between
\* (on the same object, or on the row loaded again) leaves the five derived
\* fields of the object and the stored row as the first call left them.
C2_Idempotent ==
  [][(CalculateAgain \/ (JustCalculated /\ CalculateScores(last_calc.key)))
       => (last_calc'.obj = last_calc.obj /\ term_grades' = term_grades)]_vars

\* C2 witness: the second call on the same object has returned, with a
\* positive total and a grade.
C2_Witness ==
  /\ last_calc.calls = 2
  /\ Val(last_calc.obj.total_score) > 0
  /\ last_calc.obj.grade # ""

\* C3: after calculate_scores the five derived fields are those a fresh row
\* gets from the current assessments, scores and scale; nothing of the values
\* the row held before is left (grade '' comes with no grade point).
C3_FullyOverwritten ==
  JustCalculated =>
    last_calc.obj = calculate_scores(grades, last_calc.key, Loaded(NewTermGrade))

\* C4: continuous_assessment_score is the sum of the weighted scores of the
\* student's counted rows on non-exam assessments, exam_score the sum on exam
\* assessments, and total_score is the sum of the two.
C4_SumsOfWeighted ==
  JustCalculated =>
    LET obj == last_calc.obj
    IN  /\ obj.continuous_assessment_score
             = Some(SumWeighted(CountedRows(last_calc.key, FALSE)))
        /\ obj.exam_score = Some(SumWeighted(CountedRows(last_calc.key, TRUE)))
        /\ Val(obj.total_score)
             = Val(obj.continuous_assessment_score) + Val(obj.exam_score)

\* C4 witness: a calculation with both a continuous-assessment part and an
\* exam part.
C4_Witness ==
  /\ JustCalculated
  /\ Val(last_calc.obj.continuous_assessment_score) > 0
  /\ Val(last_calc.obj.exam_score) > 0

\* C5: a calculation that follows the addition of a new non-excused
\* StudentGrade with a positive score gives a total_score not lower than the
\* calculation before the addition gave.
C5_Monotone ==
  (last_calc.key # <<>> /\ last_calc.before # None) =>
    Val(last_calc.obj.total_score) >= Val(last_calc.before)

\* C5 witness: the addition raised the total of the recalculated row.
C5_Witness ==
  /\ last_calc.key # <<>>
  /\ last_calc.before # None
  /\ Val(last_calc.before) > 0
  /\ Val(last_calc.obj.total_score) > Val(last_calc.before)

\* The student of `key` has a non-NULL score on assessment a.
HasScore(key, a) ==
  \E r \in BagToSet(grades) :
    r.assessment = a /\ r.student = key[1] /\ r.score # None

\* C6: missing data never stops calculate_scores: the row is persisted, and
\* total_score is the sum over the non-excused rows that do have a score, an
\* assessment without a row or with a NULL score adding nothing.
C6_MissingScoresTolerated ==
  /\ \A key \in DOMAIN term_grades :
       calculate_scores(grades, key, Loaded(term_grades[key])).total_score # None
  /\ JustCalculated =>
       /\ last_calc.key \in DOMAIN term_grades
       /\ term_grades[last_calc.key] = Stored(last_calc.obj)
       /\ last_calc.obj.total_score
            = Some(SumWeighted(CountedRows(last_calc.key, FALSE)
                               \cup CountedRows(last_calc.key, TRUE)))

\* C6 witness: of the assessments calculated, one has a scored row, and one
\* has no row or a row whose score is NULL.
C6_Witness ==
  /\ JustCalculated
  /\ Val(last_calc.obj.total_score) > 0
  /\ \E a \in AssessmentsFor(last_calc.key[2], last_calc.key[3]) :
       ~HasScore(last_calc.key, a)
  /\ \E r \in BagToSet(grades) :
       /\ r.student = last_calc.key[1]
       /\ r.score = None
       /\ ~r.is_excused
       /\ r.assessment \in AssessmentsFor(last_calc.key[2], last_calc.key[3])

\* The scores get_grade_for_score is probed with (micros), and None.
GradeProbes ==
  {None} \cup {Some(x) : x \in {0, 44990000, 44995000, 69993000, 70000000,
                               72000000, 79998000, 80000000, 100000000}}

\* The bands that contain a score.
Containing(score) ==
  {b \in scale : b.min_score * 10000 <= Val(score)
                 /\ Val(score) <= b.max_score * 10000}

\* The answer of get_grade_for_score to `score` is right: None for None and
\* for a score no band contains, else the grade of a containing band whose
\* min_score is the highest among the containing bands.
RightGrade(score, answer) ==
  IF score = None
    THEN answer = None
    ELSE IF Containing(score) = {}
      THEN answer = None
      ELSE /\ answer # None
           /\ \E b \in Containing(score) :
                /\ b.grade = Val(answer)
                /\ \A c \in Containing(score) : c.min_score <= b.min_score

\* C10: get_grade_for_score returns the grade of the containing band with
\* the highest min_score, None when no band contains the score or the score
\* is None; calculate_scores then stores '' for None and the grade otherwise.
C10_GradeForScore ==
  /\ \A score \in GradeProbes : RightGrade(score, get_grade_for_score(score))
  /\ JustCalculated =>
       /\ RightGrade(last_calc.obj.total_score,
                     IF last_calc.obj.grade = "" THEN None
                     ELSE Some(last_calc.obj.grade))

\* C10 witness: with the overlapping bands X and A1 in the scale, a total
\* that no band contains was stored with grade ''.
C10_Witness ==
  /\ JustCalculated
  /\ last_calc.obj.grade = ""
  /\ \E b \in scale : b.grade = "X"
  /\ \E b \in scale : b.grade = "A1"
  /\ Val(last_calc.obj.total_score) > 0


\* ===================================================================
\* Properties of score entry
\* ===================================================================
\* The form that was just handled carried a score outside [0, max_score].
OutOfRange(score, a) ==
  score # None /\ (Val(score) > Catalogue[a].max_score * 100 \/ Val(score) < 0)

\* The form that was just handled carried the score 0 or max_score.
Boundary(score, a) ==
  score # None /\ (Val(score) = 0 \/ Val(score) = Catalogue[a].max_score * 100)

\* C7: a submission with a score above max_score or below 0 is rejected and
\* leaves the stored StudentGrade rows as they were; a submission with the
\* score 0 or max_score is accepted and the pair's row is stored.
C7_RangeEnforced ==
  [][form'.pair # <<>> =>
       /\ OutOfRange(form'.score, form'.pair[1]) =>
            (~form'.valid /\ grades' = grades)
       /\ Boundary(form'.score, form'.pair[1]) =>
            (form'.valid /\ RowsOf(grades', form'.pair[1], form'.pair[2]) # {})]_vars

\* C7 witness: a score above max_score was submitted for a pair whose row is
\* stored, and was rejected.
C7_Witness ==
  /\ form.pair # <<>>
  /\ form.score # None
  /\ Val(form.score) > Catalogue[form.pair[1]].max_score * 100
  /\ ~form.valid
  /\ RowsOf(grades, form.pair[1], form.pair[2]) # {}

\* C8: no StudentGrade saved through the form has is_excused = True together
\* with a score: a submission with is_excused = True stores the score None.
C8_ExcusedStoresNoScore ==
  \A r \in BagToSet(grades) : r.is_excused => r.score = None

\* C9: no two StudentGrade rows have the same (assessment, student), and a
\* pair whose recording request has finished, with or without IntegrityError,
\* has exactly one row.
C9_OneRowPerPair ==
  /\ \A r \in BagToSet(grades) :
       /\ CopiesIn(r, grades) = 1
       /\ RowsOf(grades, r.assessment, r.student) = {r}
  /\ \A p \in Requests :
       txn[p].pc \in {"done", "failed"} =>
         /\ Cardinality(RowsOf(grades, txn[p].pair[1], txn[p].pair[2])) = 1
         /\ BagCardinality(grades)
              = Cardinality({<<r.assessment, r.student>> : r \in BagToSet(grades)})

\* C9 witness: two requests looked the same pair up while it had no row; one
\* has inserted it and the other was refused.
C9_Witness ==
  \E p, q \in Requests :
    /\ p # q
    /\ txn[p].pair = txn[q].pair
    /\ txn[p].pc = "done"
    /\ txn[q].pc = "failed"
    /\ ~txn[p].found
    /\ ~txn[q].found

\* ===================================================================
\* Properties of ReportCard.calculate_overall_metrics
\* ===================================================================
\* A compilation has just returned and nothing was written since.
JustCompiled == last_report.key # <<>>

\* The keys of the TermGrade rows of the student and grading period of the
\* report card that was just compiled.
SubjectsOf(key) ==
  {k \in DOMAIN term_grades : k[1] = key[1] /\ k[3] = key[2]}

\* The sum of a column over rows, a row without a value adding nothing.
RECURSIVE SumColumn(_, _)
SumColumn(keys, column) ==
  IF keys = {} THEN 0
  ELSE LET k == CHOOSE x \in keys : TRUE
       IN  (IF term_grades[k][column] = None THEN 0
            ELSE Val(term_grades[k][column])) + SumColumn(keys \ {k}, column)

\* The object's quotient q is n / d.
IsQuotient(q, n, d) == q # None /\ Val(q).num * d = n * Val(q).den

\* C11: after calculate_overall_metrics, gpa is the sum of the grade points
\* that are not None divided by the number of TermGrades whose grade point
\* is not None: an ungraded subject counts in neither.
C11_GpaOverGradedSubjects ==
  JustCompiled =>
    LET graded == {k \in SubjectsOf(last_report.key) :
                     term_grades[k].grade_point # None}
    IN  graded # {} =>
          IsQuotient(last_report.obj.gpa,
                     SumColumn(graded, "grade_point"), Cardinality(graded))

\* C12: after calculate_overall_metrics for a student and grading period
\* without any TermGrade, average_score and gpa are None, whatever the report
\* card held before.
C12_NoTermGradesNoAverage ==
  (JustCompiled /\ SubjectsOf(last_report.key) = {}) =>
    /\ last_report.obj.average_score = None
    /\ last_report.obj.gpa = None

\* C13: after calculate_overall_metrics for a student and grading period
\* with at least one TermGrade, total_score is the sum of the TermGrades'
\* total_score and average_score is that sum divided by their number.
C13_TotalAndAverage ==
  (JustCompiled /\ SubjectsOf(last_report.key) # {}) =>
    LET subjects == SubjectsOf(last_report.key)
        sum      == SumColumn(subjects, "total_score")
    IN  /\ IsQuotient(last_report.obj.total_score, sum, 1)
        /\ IsQuotient(last_report.obj.average_score, sum, Cardinality(subjects))
        /\ report_cards[last_report.key].total_score = Some(sum)

\* TermGrades of 75.00 / 3.00 and 60.00 / 2.00 were compiled into a total of
\* 135.00, an average of 67.50 and a gpa of 2.50, while the student has a
\* TermGrade in another grading period.
C13_Witness ==
  /\ JustCompiled
  /\ {term_grades[k].total_score : k \in SubjectsOf(last_report.key)}
       = {Some(7500), Some(6000)}
  /\ \E k \in DOMAIN term_grades : k[1] = last_report.key[1] /\ k[3] # last_report.key[2]
  /\ report_cards[last_report.key].total_score = Some(13500)
  /\ report_cards[last_report.key].average_score = Some(6750)
  /\ report_cards[last_report.key].gpa = Some(250)

\* C14: after calculate_overall_metrics, attendance_percentage (in cents) is
\* days_present / days_school_opened * 100 when days_school_opened > 0 and
\* None when days_school_opened = 0.
C14_AttendancePercentage ==
  JustCompiled =>
    LET obj == last_report.obj
    IN  IF obj.days_school_opened > 0
          THEN IsQuotient(obj.attendance_percentage,
                          obj.days_present * 100 * 100, obj.days_school_opened)
          ELSE obj.attendance_percentage = None

\* The student's attendance records whose session date lies in the grading
\* period, both ends included.
InPeriod(key) ==
  {r \in attendance :
     /\ r.student = key[1]
     /\ PeriodDates[key[2]].start_date <= SessionDate[r.session]
     /\ SessionDate[r.session] <= PeriodDates[key[2]].end_date}

\* C15: after calculate_overall_metrics, days_present counts the student's
\* records in the period that are present or late, days_absent those that
\* are absent, and days_school_opened the distinct session dates of the
\* student's records in the period.
C15_AttendanceCounts ==
  JustCompiled =>
    LET obj == last_report.obj
        in_period == InPeriod(last_report.key)
    IN  /\ obj.days_present
             = Cardinality({r \in in_period : r.status = "present"})
               + Cardinality({r \in in_period : r.status = "late"})
        /\ obj.days_absent = Cardinality({r \in in_period : r.status = "absent"})
        /\ obj.days_school_opened
             = Cardinality({d \in 1..7 : \E r \in in_period : SessionDate[r.session] = d})

\* A record on the last day of the period was counted and a record outside
\* the period was not.
C15_Witness ==
  /\ JustCompiled
  /\ \E r \in InPeriod(last_report.key) :
       SessionDate[r.session] = PeriodDates[last_report.key[2]].end_date
  /\ \E r \in attendance \ InPeriod(last_report.key) : r.student = last_report.key[1]
  /\ last_report.obj.days_present = 1
  /\ last_report.obj.days_school_opened = 1

\* ===================================================================
\* Properties of the grading periods and the assessment types
\* ===================================================================
\* The grading periods that are current.
CurrentPeriods == {p \in DOMAIN periods : periods[p].is_current}

\* C16: after any sequence of create, edit, set_current_period and delete
\* requests, at most one grading period is current, and after a request has
\* saved a period as current that period is the only current one.
C16_OneCurrentPeriod ==
  /\ Cardinality(CurrentPeriods) <= 1
  /\ (/\ last_request.op \in {"period_create", "period_edit", "set_current_period"}
      /\ last_request.is_current)
       => CurrentPeriods = {last_request.pk}

\* A second period was made current while both periods exist.
C16_Witness ==
  /\ last_request.op \in {"period_create", "period_edit", "set_current_period"}
  /\ last_request.is_current
  /\ last_request.pk = 2
  /\ DOMAIN periods = {1, 2}
  /\ CurrentPeriods = {2}

\* A SubjectAssessment, a TermGrade or a ReportCard references the period.
InUse(pk) ==
  \/ \E a \in assessments : Catalogue[a].grading_period = pk
  \/ \E k \in DOMAIN term_grades : k[3] = pk
  \/ \E k \in DOMAIN report_cards : k[2] = pk

\* C17: no request deletes a grading period that is in use: the period
\* stays and none of its TermGrade rows is removed.
C17_InUsePeriodKept ==
  [][\A pk \in DOMAIN periods :
       InUse(pk) =>
         /\ pk \in DOMAIN periods'
         /\ \A k \in DOMAIN term_grades : k[3] = pk => k \in DOMAIN term_grades']_vars

\* C18: a request to delete an assessment type that a SubjectAssessment
\* references leaves the type and every assessment as they were; a request
\* to delete a type nothing references removes it.
C18_TypeDeletion ==
  [][last_request'.op = "type_delete" =>
       LET pk == last_request'.pk
       IN  IF \E a \in assessments : TypePk[Catalogue[a].assessment_type] = pk
             THEN /\ assessment_types' = assessment_types
                  /\ assessments' = assessments
             ELSE /\ pk \notin DOMAIN assessment_types'
                  /\ assessments' = assessments]_vars

\* The deletion of a type that an assessment references was refused.
C18_Witness ==
  /\ last_request.op = "type_delete"
  /\ ~last_request.ok
  /\ last_request.pk \in DOMAIN assessment_types
  /\ \E a \in assessments : TypePk[Catalogue[a].assessment_type] = last_request.pk

\* A code written in capital letters only.
IsUppercase(code) ==
  \A i \in DOMAIN code : code[i] \in {"A", "C", "E", "M", "Q", "T", "X", "Z"}

\* Two letters that differ at most in case, and two codes that do.
SameLetter(a, b) ==
  \/ a = b
  \/ {a, b} \in {{"c", "C"}, {"t", "T"}, {"q", "Q"}, {"z", "Z"}}
SameCode(c, d) ==
  /\ Len(c) = Len(d)
  /\ \A i \in DOMAIN c : SameLetter(c[i], d[i])

\* C19: a type created or edited through AssessmentTypeForm is stored with
\* its code in uppercase, and creating a type whose code equals an existing
\* code when case is ignored fails and adds no row.
C19_UppercaseNoDuplicate ==
  [][/\ (last_request'.op \in {"type_create", "type_edit"} /\ last_request'.ok)
         => /\ IsUppercase(assessment_types'[last_request'.pk].code)
            /\ SameCode(assessment_types'[last_request'.pk].code, last_request'.code)
     /\ (/\ last_request'.op = "type_create"
         /\ \E t \in DOMAIN assessment_types :
              SameCode(assessment_types[t].code, last_request'.code))
         => /\ ~last_request'.ok
            /\ assessment_types' = assessment_types]_vars

\* ===================================================================
\* Properties of the class-position ranking pass
\* ===================================================================
\* The TermGrade rows of the class-subject and grading period just ranked.
Ranked == {k \in DOMAIN term_grades : <<k[2], k[3]>> = Val(last_rank)}

C21_PercentageAndWeighted ==
  \A g \in BagToSet(grades) :
    LET p == get_percentage(g)
        w == get_weighted_score(g)
        a == Catalogue[g.assessment]
    IN  /\ (p = None) <=> (g.is_excused \/ g.score = None)
        /\ p # None => Val(p) * max_score[g.assessment] = Val(g.score) * 100
        /\ (w = None) <=> (p = None)
        /\ w # None => /\ Val(w) % 100 = 0
                        /\ (Val(w) \div 100) * max_score[g.assessment]
                             = Val(g.score) * a.weight

\* A score of 6.67 out of 20 with weight 30 gives 33.35 % and 10.005, next
\* to an excused grade that has a score.
C21_Witness ==
  /\ \E g \in BagToSet(grades) :
       /\ g.score = Some(667) /\ ~g.is_excused
       /\ get_percentage(g) = Some(3335)
       /\ get_weighted_score(g) = Some(10005000)
  /\ \E g \in BagToSet(grades) : g.is_excused /\ g.score # None

\* The (class_subject, grading_period) pairs of the catalogue.
WeightPairs ==
  {<<Catalogue[a].class_subject, Catalogue[a].grading_period>> : a \in DOMAIN Catalogue}

\* C22: get_total_weight_for_period is the sum of the weights of the stored
\* assessments of its (class_subject, grading_period): it is 0 when there
\* are none, grows by the weight of every assessment added to the pair,
\* shrinks by the weight of every one removed, and is untouched by the
\* assessments of other pairs.
C22_TotalWeight ==
  [][\A pair \in WeightPairs :
       LET mine(a) == <<Catalogue[a].class_subject, Catalogue[a].grading_period>> = pair
           before == get_total_weight_for_period(assessments, pair[1], pair[2])
           after  == get_total_weight_for_period(assessments', pair[1], pair[2])
           added  == {a \in assessments' \ assessments : mine(a)}
           gone   == {a \in assessments \ assessments' : mine(a)}
       IN  /\ (\A a \in assessments : ~mine(a)) => before = 0
           /\ added = {} /\ gone = {} => after = before
           /\ \A a \in added : gone = {} /\ after = before + Catalogue[a].weight
           /\ \A a \in gone : added = {} /\ after = before - Catalogue[a].weight
    ]_vars

\* Three assessments of one class-subject and period weigh 130 together.
C22_Witness ==
  /\ {1, 2, 5} \subseteq assessments
  /\ get_total_weight_for_period(assessments, 1, 1) = 13000

\* ===================================================================
\* Properties of concurrent requests
\* ===================================================================
\* C23: two recalculations of one TermGrade that run concurrently both reach
\* their save, and the stored row is, in all five derived columns, the
\* object of the request whose save committed last.
C23_LastSaveWins ==
  /\ \A p \in CalcRequests :
       calc[p].pc \in {"loaded", "computed"} => calc[p].key \in DOMAIN term_grades
  /\ last_save # 0 =>
       term_grades[calc[last_save].key] = Stored(calc[last_save].obj)

\* Both requests have saved, their results differ in the three scores and
\* the grade, and the row is the result of request 1, which loaded the row
\* before request 2 saved.
C23_Witness ==
  /\ \A p \in CalcRequests : calc[p].pc = "done"
  /\ last_save = 1
  /\ calc[1].obj.grade_point = None
  /\ calc[2].obj.grade_point # None
  /\ \A f \in {"continuous_assessment_score", "exam_score", "total_score", "grade"} :
       Stored(calc[1].obj)[f] # Stored(calc[2].obj)[f]
  /\ term_grades[<<1, 1, 1>>] = Stored(calc[1].obj)

\* C27: the save at the end of calculate_scores changes only the five derived
\* columns of its own row: the ledger, the assessments and the scale stay as
\* they are, and teacher_comment and class_position keep the values last
\* committed, also when they were edited after the request loaded the row.
C27_OnlyDerivedFields ==
  [][\A p \in CalcRequests :
       calc[p].pc = "computed" /\ calc'[p].pc = "done" =>
         /\ grades' = grades
         /\ assessments' = assessments
         /\ scale' = scale
         /\ teacher_comment' = teacher_comment
         /\ class_position' = class_position
    ]_vars

\* C24: once concurrent requests that each saved a different GradingPeriod
\* with is_current=True have all completed, at most one GradingPeriod is
\* current.
C24_OneCurrentAfterBoth ==
  (/\ \A p \in Requests : period_txn[p].pc \in {"idle", "done"}
   /\ \E p, q \in Requests : /\ period_txn[p].pc = "done" /\ period_txn[p].is_current
                              /\ period_txn[q].pc = "done" /\ period_txn[q].is_current
                              /\ period_txn[p].pk # period_txn[q].pk)
    => Cardinality(CurrentPeriods) <= 1

\* ===================================================================
\* Properties of the stored scores and of the default scale
\* ===================================================================
\* C25: every stored score that is not NULL lies between 0 and the max_score
\* of its assessment, also after that max_score was lowered, so that no
\* grade has a percentage above 100.
C25_ScoresWithinMax ==
  \A g \in BagToSet(grades) :
    g.score # None =>
      /\ 0 <= Val(g.score)
      /\ Val(g.score) <= max_score[g.assessment] * 100
      /\ get_percentage(g) # None => Val(get_percentage(g)) <= 10000

\* The bands of the default scale that contain a total (micros).
BandsOf(total) ==
  {b \in DefaultScale : Micros(b.min_score) <= total /\ total <= Micros(b.max_score)}

\* C26: the bands of the default scale do not overlap, and a total between 0
\* and 100 that calculate_scores has produced under the default scale lies
\* in exactly one band and has a grade.
C26_DefaultScaleCovers ==
  /\ \A b, c \in DefaultScale :
       b # c => b.max_score < c.min_score \/ c.max_score < b.min_score
  /\ (/\ last_calc.key # <<>>
      /\ scale = DefaultScale
      /\ Val(last_calc.obj.total_score) >= 0
      /\ Val(last_calc.obj.total_score) <= Micros(10000))
       => /\ Cardinality(BandsOf(Val(last_calc.obj.total_score))) = 1
          /\ last_calc.obj.grade # ""

\* ===================================================================
\* Properties of the attendance figures of a report card
\* ===================================================================
\* C28: the row calculate_overall_metrics has just saved has days_present +
\* days_absent <= days_school_opened and an attendance_percentage between 0
\* and 100, whatever the attendance records of the period are.
C28_AttendanceBounds ==
  JustCompiled =>
    LET row == report_cards[last_report.key]
    IN  /\ row.days_present + row.days_absent <= row.days_school_opened
        /\ row.attendance_percentage # None =>
              /\ 0 <= Val(row.attendance_percentage)
              /\ Val(row.attendance_percentage) <= 10000

\* ===================================================================
\* Properties of the terms
\* ===================================================================
\* The terms that are current.
CurrentTerms == {t \in DOMAIN terms : terms[t].is_current}

\* C29: after any sequence of term_create, term_edit and term_delete
\* requests at most one term is current, and right after a request has saved
\* a term as current that term is the only current one.
C29_OneCurrentTerm ==
  /\ Cardinality(CurrentTerms) <= 1
  /\ (/\ last_request.op \in {"term_create", "term_edit"}
      /\ last_request.ok
      /\ last_request.is_current)
       => CurrentTerms = {last_request.pk}

\* Term 2 has just been saved as current by term_edit, with term 1 stored.
C29_Witness ==
  /\ last_request = Request("term_edit", 2, TRUE, TRUE, <<>>)
  /\ {1, 2} \subseteq DOMAIN terms
  /\ CurrentTerms = {2}

\* ===================================================================
\* Properties of finalized attendance sessions
\* ===================================================================
\* The AttendanceRecord rows of a session.
RecordsOf(A, session) == {r \in A : r.session = session}

\* C30: once a session is finalized, no step of a mark_attendance request
\* creates or changes a record of it and no step of a session_delete request
\* deletes it, whenever the request loaded the session.
C30_FinalizedIsFrozen ==
  [][\A s \in DOMAIN sessions :
       sessions[s].is_finalized =>
         /\ s \in DOMAIN sessions'
         /\ RecordsOf(attendance', s) = RecordsOf(attendance, s)
    ]_vars
====
